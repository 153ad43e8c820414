----------------------------- MODULE MessageProofs -----------------------------
(***************************************************************************)
(* Proofs about a message on its way: its bytes (Wire), for every word and   *)
(* every message; the connection that carries requests and replies           *)
(* (Framing), for all cuts of all reads; and what is read from them (Unpack),*)
(* for all messages, all pieces of them and all allocations that fail.       *)
(***************************************************************************)
EXTENDS Framing, Unpack, SequenceTheorems, WellFoundedInduction, TLAPS

(* A zigzag word is a word, and unzigzag32 undoes zigzag32 on all 2^32 of  *)
(* them, the ones whose double does not fit 32 bits included.              *)
THEOREM UnzigzagZigzag ==
  ASSUME NEW v \in Int32
  PROVE  zigzag32(v) \in Int32 /\ unzigzag32(zigzag32(v)) = v
<1> DEFINE z == zigzag32(v)
<1>1. CASE v >= 0 /\ v < Half
  <2>1. z = 2 * v
    BY <1>1, SMT DEF zigzag32
  <2>2. z \div 2 = v /\ z % 2 = 0 /\ z >= 0
    BY <2>1, <1>1, SMT DEF Int32, Half
  <2> QED
    BY <2>1, <2>2, <1>1, SMT DEF unzigzag32, Int32, Half
<1>2. CASE v >= Half
  <2>1. z = 2 * (v - Half - Half)
    BY <1>2, SMT DEF zigzag32, Half, Int32
  <2>2. z \div 2 = v - Half - Half /\ z % 2 = 0 /\ z < 0 /\ z \in Int32
    BY <2>1, <1>2, SMT DEF Int32, Half
  <2> QED
    BY <2>1, <2>2, <1>2, SMT DEF unzigzag32, Int32, Half
<1>3. CASE v < 0 /\ v >= -Half
  <2>1. z = -2 * (v + 1) + 1
    BY <1>3, SMT DEF zigzag32, Half, Int32
  <2>2. z \div 2 = -v - 1 /\ z % 2 = 1 /\ z >= 0 /\ z \in Int32
    BY <2>1, <1>3, SMT DEF Int32, Half
  <2> QED
    BY <2>1, <2>2, <1>3, SMT DEF unzigzag32, Int32, Half
<1>4. CASE v < -Half
  <2>1. z = -2 * (v + Half + Half) - 1
    BY <1>4, SMT DEF zigzag32, Half, Int32
  <2>2. z \div 2 = -(v + Half + Half) - 1 /\ z % 2 = 1 /\ z < 0 /\ z \in Int32
    BY <2>1, <1>4, SMT DEF Int32, Half
  <2> QED
    BY <2>1, <2>2, <1>4, SMT DEF unzigzag32, Int32, Half
<1> QED
  BY <1>1, <1>2, <1>3, <1>4, SMT DEF Half, Int32

-----------------------------------------------------------------------------
(* The seven low bits and the rest of a word.                              *)
LEMMA SplitWord ==
  ASSUME NEW w \in Int32
  PROVE  /\ Low7(w) \in Int /\ 0 <= Low7(w) /\ Low7(w) < 128
         /\ High7(w) \in Int /\ 0 <= High7(w) /\ High7(w) < 33554432
         /\ w >= 0 => w = Low7(w) + 128 * High7(w)
         /\ w < 0 => w = Low7(w) + 128 * High7(w) - Half - Half - Half - Half
<1> DEFINE d == w \div 128
<1>0. w \in Int
  BY DEF Int32
<1>1. /\ d \in Int /\ w % 128 \in Int
      /\ w = 128 * d + (w % 128)
      /\ 0 <= w % 128 /\ w % 128 < 128
  BY <1>0, SMT
<1>2. -16777216 <= d /\ d < 16777216
  BY <1>1, SMT DEF Int32, Half
<1> HIDE DEF d
<1>3. CASE w >= 0
  <2>1. d >= 0
    BY <1>0, <1>1, <1>3, SMT
  <2>2. d % 33554432 = d
    BY <1>1, <1>2, <2>1, SMT
  <2> QED
    BY <1>0, <1>1, <1>2, <1>3, <2>1, <2>2, SMT DEF Low7, High7, d
<1>4. CASE w < 0
  <2>1. d < 0
    BY <1>0, <1>1, <1>4, SMT
  <2>2. d % 33554432 = d + 33554432
    BY <1>1, <1>2, <2>1, SMT
  <2> QED
    BY <1>0, <1>1, <1>2, <1>4, <2>1, <2>2, SMT DEF Low7, High7, d, Half
<1> QED
  BY <1>3, <1>4, SMT DEF Int32

(* A byte before a sequence.                                               *)
LEMMA IsByte ==
  ASSUME NEW b \in Int, Below(b, 256)
  PROVE  b \in Byte
  BY SMT DEF Byte, Below

\* A byte in front of a sequence.
LEMMA ByteBefore ==
  ASSUME NEW b \in Byte, NEW s \in Seq(Byte)
  PROVE  /\ << b >> \o s \in Seq(Byte)
         /\ Len(<< b >> \o s) = Len(s) + 1
         /\ (<< b >> \o s)[1] = b
         /\ \A i \in 1 .. Len(s) : (<< b >> \o s)[i + 1] = s[i]
<1>1. << b >> \in Seq(Byte) /\ Len(<< b >>) = 1 /\ << b >>[1] = b
  OBVIOUS
<1>2. /\ << b >> \o s \in Seq(Byte)
      /\ Len(<< b >> \o s) = Len(<< b >>) + Len(s)
      /\ \A i \in 1 .. Len(<< b >>) + Len(s) :
            (<< b >> \o s)[i] = IF i <= Len(<< b >>) THEN << b >>[i] ELSE s[i - Len(<< b >>)]
  BY <1>1, ConcatProperties
<1>3. Len(s) \in Nat
  BY LenProperties
<1>4. ASSUME NEW i \in 1 .. Len(s) PROVE (<< b >> \o s)[i + 1] = s[i]
  <2>1. i + 1 \in 1 .. Len(<< b >>) + Len(s) /\ ~ (i + 1 <= Len(<< b >>)) /\ (i + 1) - Len(<< b >>) = i
    BY <1>1, <1>3
  <2> QED
    BY <2>1, <1>2
<1>5. 1 \in 1 .. Len(<< b >>) + Len(s)
  BY <1>1, <1>3
<1> QED
  BY <1>1, <1>2, <1>3, <1>4, <1>5

(* What one level of uint32_pack, p, adds to the deeper ones, s.           *)
Adds(p, w, s) ==
  /\ p \in Seq(Byte)
  /\ ~ More(w) => Len(p) = 1 /\ p[1] = w
  /\ More(w) => /\ Len(p) = Len(s) + 1
                /\ p[1] = Low7(w) + 128
                /\ Len(s) >= 1 => p[2] = s[1]
                /\ Len(s) >= 2 => p[3] = s[2]
                /\ Len(s) >= 3 => p[4] = s[3]
                /\ Len(s) >= 4 => p[5] = s[4]

\* One more byte of a varint.
LEMMA PackMoreAdds ==
  ASSUME NEW w \in Int, NEW s \in Seq(Byte)
  PROVE  Adds(PackMore(w, s), w, s)
<1>1. CASE More(w)
  <2> DEFINE b == Low7(w) + 128
             p == << b >> \o s
  <2>1. b \in Byte
    <3>1. b \in Int /\ Below(b, 256)
      BY SMT DEF Low7, Below
    <3> QED
      BY <3>1, IsByte
  <2>2. PackMore(w, s) = p
    BY <1>1 DEF PackMore
  <2> HIDE DEF b
  <2>3. /\ p \in Seq(Byte) /\ Len(p) = Len(s) + 1 /\ p[1] = b
        /\ \A i \in 1 .. Len(s) : p[i + 1] = s[i]
    BY <2>1, ByteBefore, Zenon
  <2>4. Len(s) \in Nat
    BY LenProperties
  <2> HIDE DEF p
  <2>5. /\ Len(s) >= 1 => p[1 + 1] = s[1]
        /\ Len(s) >= 2 => p[2 + 1] = s[2]
        /\ Len(s) >= 3 => p[3 + 1] = s[3]
        /\ Len(s) >= 4 => p[4 + 1] = s[4]
    BY <2>3, <2>4
  <2> QED
    BY <1>1, <2>2, <2>3, <2>5 DEF Adds, b
<1>2. CASE ~ More(w)
  <2>1. PackMore(w, s) = << w >>
    BY <1>2 DEF PackMore
  <2>2. w \in Byte
    <3>1. Below(w, 256)
      BY <1>2, SMT DEF More, Below
    <3> QED
      BY <3>1, IsByte
  <2> QED
    BY <1>2, <2>1, <2>2 DEF Adds
<1> QED
  BY <1>1, <1>2

-----------------------------------------------------------------------------
(* What is left of a word after a shift, shifted again.                    *)
LEMMA SplitNat ==
  ASSUME NEW w \in Int, 0 <= w, w < 33554432
  PROVE  /\ Low7(w) \in Int /\ 0 <= Low7(w) /\ Low7(w) < 128
         /\ High7(w) \in Int /\ 0 <= High7(w) /\ High7(w) < 33554432
         /\ w = Low7(w) + 128 * High7(w)
<1>1. w \in Int32 /\ ~ (w < 0)
  BY SMT DEF Int32, Half
<1> QED
  BY <1>1, SplitWord, SMT

\* The word, shifted once to four times.
W1(w) == High7(w)
W2(w) == High7(W1(w))
W3(w) == High7(W2(w))
W4(w) == High7(W3(w))

\* The bytes of a varint, by the shifted words.
IsVarintOf(p, n, w, w1, w2, w3, w4) ==
  /\ n = 1 => p[1] = w
  /\ n > 1 => p[1] = Low7(w) + 128
  /\ n = 2 => p[2] = w1
  /\ n > 2 => p[2] = Low7(w1) + 128
  /\ n = 3 => p[3] = w2
  /\ n > 3 => p[3] = Low7(w2) + 128
  /\ n = 4 => p[4] = w3
  /\ n > 4 => p[4] = Low7(w3) + 128 /\ p[5] = w4

(* The bytes of a varint: one for each seven bits that are not zero, the   *)
(* fifth with the four that are left.                                      *)
LEMMA Uint32PackIs ==
  ASSUME NEW w \in Int32
  PROVE  /\ uint32_pack(w) \in Seq(Byte)
         /\ Len(uint32_pack(w)) = uint32_size(w)
         /\ IsVarintOf(uint32_pack(w), uint32_size(w), w, W1(w), W2(w), W3(w), W4(w))
<1> DEFINE w1 == W1(w)
           w2 == W2(w)
           w3 == W3(w)
           w4 == W4(w)
           p4 == << w4 >>
           p3 == PackMore(w3, p4)
           p2 == PackMore(w2, p3)
           p1 == PackMore(w1, p2)
           p0 == PackMore(w, p1)
<1>1. /\ w \in Int /\ w1 \in Int /\ 0 <= w1 /\ w1 < 33554432
      /\ Low7(w) \in Int /\ 0 <= Low7(w) /\ Low7(w) < 128
      /\ w >= 0 => w = Low7(w) + 128 * w1
      /\ w < 0 => w1 >= 16777216
  <2>1. w \in Int /\ -Half - Half <= w
    BY SMT DEF Int32
  <2> QED
    BY <2>1, SplitWord, SMT DEF Half, W1
<1>2. /\ w2 \in Int /\ 0 <= w2 /\ w2 < 33554432
      /\ w1 = Low7(w1) + 128 * w2 /\ Low7(w1) \in Int /\ 0 <= Low7(w1) /\ Low7(w1) < 128
  BY <1>1, SplitNat, SMT DEF W2
<1>3. /\ w3 \in Int /\ 0 <= w3 /\ w3 < 33554432
      /\ w2 = Low7(w2) + 128 * w3 /\ Low7(w2) \in Int /\ 0 <= Low7(w2) /\ Low7(w2) < 128
  BY <1>2, SplitNat, SMT DEF W3
<1>4. /\ w4 \in Int /\ 0 <= w4
      /\ w3 = Low7(w3) + 128 * w4 /\ Low7(w3) \in Int /\ 0 <= Low7(w3) /\ Low7(w3) < 128
  BY <1>3, SplitNat, SMT DEF W4
<1>13. w4 \in Byte
  <2> HIDE DEF w1, w2, w3, w4
  <2>1. w2 < 262144
    BY <1>1, <1>2, SMT
  <2>2. w3 < 2048
    BY <2>1, <1>2, <1>3, SMT
  <2>3. Below(w4, 256)
    BY <2>2, <1>3, <1>4, SMT DEF Below
  <2> QED
    BY <2>3, <1>4, IsByte
<1>5. /\ p4 \in Seq(Byte) /\ Len(p4) = 1 /\ p4[1] = w4
      /\ p3 = PackMore(w3, p4) /\ p2 = PackMore(w2, p3)
      /\ p1 = PackMore(w1, p2) /\ p0 = PackMore(w, p1)
  BY <1>13
<1>10. uint32_pack(w) = p0
  BY DEF uint32_pack, W1, W2, W3, W4
<1> DEFINE n == uint32_size(w)
<1> HIDE DEF n, p0, p1, p2, p3, p4, w1, w2, w3, w4
<1>0. w \in Int /\ w1 \in Int /\ w2 \in Int /\ w3 \in Int /\ w4 \in Int
  BY <1>1, <1>2, <1>3, <1>4
<1>6. Adds(p3, w3, p4)
  BY <1>0, <1>5, PackMoreAdds
<1>7. Adds(p2, w2, p3)
  <2>1. p3 \in Seq(Byte)
    BY <1>6 DEF Adds
  <2> QED
    BY <2>1, <1>0, <1>5, PackMoreAdds
<1>8. Adds(p1, w1, p2)
  <2>1. p2 \in Seq(Byte)
    BY <1>7 DEF Adds
  <2> QED
    BY <2>1, <1>0, <1>5, PackMoreAdds
<1>9. Adds(p0, w, p1)
  <2>1. p1 \in Seq(Byte)
    BY <1>8 DEF Adds
  <2> QED
    BY <2>1, <1>0, <1>5, PackMoreAdds
<1>11. /\ ~ More(w) => n = 1
       /\ More(w) /\ ~ More(w1) => n = 2
       /\ More(w) /\ More(w1) /\ ~ More(w2) => n = 3
       /\ More(w) /\ More(w1) /\ More(w2) /\ ~ More(w3) => n = 4
       /\ More(w) /\ More(w1) /\ More(w2) /\ More(w3) => n = 5
  BY <1>1, <1>2, <1>3, <1>4, SMT DEF More, uint32_size, Below, n
<1>12. p0 \in Seq(Byte) /\ Len(p0) = n /\ IsVarintOf(p0, n, w, w1, w2, w3, w4)
  <2>1. CASE ~ More(w)
    BY <2>1, <1>9, <1>11 DEF IsVarintOf, Adds
  <2>2. CASE More(w) /\ ~ More(w1)
    <3>1. Len(p1) = 1 /\ p1[1] = w1
      BY <2>2, <1>8 DEF Adds
    <3>2. /\ Len(p0) = 2 /\ p0[1] = Low7(w) + 128
          /\ p0[2] = p1[1]
      BY <3>1, <2>2, <1>9 DEF Adds
    <3> QED
      BY <3>1, <3>2, <2>2, <1>9, <1>11 DEF IsVarintOf, Adds
  <2>3. CASE More(w) /\ More(w1) /\ ~ More(w2)
    <3>1. Len(p2) = 1 /\ p2[1] = w2
      BY <2>3, <1>7 DEF Adds
    <3>2. /\ Len(p1) = 2 /\ p1[1] = Low7(w1) + 128
          /\ p1[2] = p2[1]
      BY <3>1, <2>3, <1>8 DEF Adds
    <3>3. /\ Len(p0) = 3 /\ p0[1] = Low7(w) + 128
          /\ p0[2] = p1[1] /\ p0[3] = p1[2]
      BY <3>2, <2>3, <1>9 DEF Adds
    <3> QED
      BY <3>1, <3>2, <3>3, <2>3, <1>9, <1>11 DEF IsVarintOf, Adds
  <2>4. CASE More(w) /\ More(w1) /\ More(w2) /\ ~ More(w3)
    <3>1. Len(p3) = 1 /\ p3[1] = w3
      BY <2>4, <1>6 DEF Adds
    <3>2. /\ Len(p2) = 2 /\ p2[1] = Low7(w2) + 128
          /\ p2[2] = p3[1]
      BY <3>1, <2>4, <1>7 DEF Adds
    <3>3. /\ Len(p1) = 3 /\ p1[1] = Low7(w1) + 128
          /\ p1[2] = p2[1] /\ p1[3] = p2[2]
      BY <3>2, <2>4, <1>8 DEF Adds
    <3>4. /\ Len(p0) = 4 /\ p0[1] = Low7(w) + 128
          /\ p0[2] = p1[1] /\ p0[3] = p1[2] /\ p0[4] = p1[3]
      BY <3>3, <2>4, <1>9 DEF Adds
    <3> QED
      BY <3>1, <3>2, <3>3, <3>4, <2>4, <1>9, <1>11 DEF IsVarintOf, Adds
  <2>5. CASE More(w) /\ More(w1) /\ More(w2) /\ More(w3)
    <3>1. Len(p4) = 1 /\ p4[1] = w4
      BY <1>5
    <3>2. /\ Len(p3) = 2 /\ p3[1] = Low7(w3) + 128
          /\ p3[2] = p4[1]
      BY <3>1, <2>5, <1>6 DEF Adds
    <3>3. /\ Len(p2) = 3 /\ p2[1] = Low7(w2) + 128
          /\ p2[2] = p3[1] /\ p2[3] = p3[2]
      BY <3>2, <2>5, <1>7 DEF Adds
    <3>4. /\ Len(p1) = 4 /\ p1[1] = Low7(w1) + 128
          /\ p1[2] = p2[1] /\ p1[3] = p2[2] /\ p1[4] = p2[3]
      BY <3>3, <2>5, <1>8 DEF Adds
    <3>5. /\ Len(p0) = 5 /\ p0[1] = Low7(w) + 128
          /\ p0[2] = p1[1] /\ p0[3] = p1[2] /\ p0[4] = p1[3] /\ p0[5] = p1[4]
      BY <3>4, <2>5, <1>9 DEF Adds
    <3> QED
      BY <3>1, <3>2, <3>3, <3>4, <3>5, <2>5, <1>9, <1>11 DEF IsVarintOf, Adds
  <2> QED
    BY <2>1, <2>2, <2>3, <2>4, <2>5
<1> QED
  BY <1>10, <1>12 DEF n, w1, w2, w3, w4

-----------------------------------------------------------------------------
(* The parts of a field are as long as their sizes say.                    *)

\* The lengths of the parts of a member.
LEMMA Int32PackLen ==
  ASSUME NEW v \in Int32
  PROVE  int32_pack(v) \in Seq(Byte) /\ Len(int32_pack(v)) = int32_size(v)
<1>1. v \in Int
  BY DEF Int32
<1>2. CASE v < 0
  <2> DEFINE b(x) == Low7(x) + 128
             s == << b(v), b(v \div 128), b(v \div 16384), b(v \div 2097152),
                     b(v \div 268435456), 255, 255, 255, 255, 1 >>
  <2>1. /\ b(v) \in Byte /\ b(v \div 128) \in Byte /\ b(v \div 16384) \in Byte
        /\ b(v \div 2097152) \in Byte /\ b(v \div 268435456) \in Byte
    <3>1. ASSUME NEW x \in Int PROVE b(x) \in Byte
      <4>1. b(x) \in Int /\ Below(b(x), 256)
        BY SMT DEF Low7, Below
      <4> HIDE DEF b
      <4> QED
        BY <4>1, IsByte
    <3>2. /\ v \div 128 \in Int /\ v \div 16384 \in Int
          /\ v \div 2097152 \in Int /\ v \div 268435456 \in Int
      BY <1>1, SMT
    <3> HIDE DEF b
    <3> QED
      BY <1>1, <3>1, <3>2
  <2>2. int32_pack(v) = s /\ int32_size(v) = 10
    BY <1>2, SMT DEF int32_pack, int32_size
  <2> HIDE DEF b
  <2>3. 255 \in Byte /\ 1 \in Byte
    <3>1. Below(255, 256) /\ Below(1, 256)
      BY SMT DEF Below
    <3> QED
      BY <3>1, IsByte
  <2>4. s \in Seq(Byte) /\ Len(s) = 10
    BY <2>1, <2>3, SMT
  <2> QED
    BY <2>2, <2>4
<1>3. CASE ~ (v < 0)
  <2>1. int32_pack(v) = uint32_pack(v) /\ int32_size(v) = uint32_size(v)
    BY <1>3 DEF int32_pack, int32_size
  <2> QED
    BY <2>1, Uint32PackIs
<1> QED
  BY <1>2, <1>3

LEMMA TagPackLen ==
  ASSUME NEW id \in 1 .. n_fields, NEW wireType \in Nat
  PROVE  tag_pack(id, wireType) = << 8 * id + wireType >> /\ get_tag_size(id) = 1
<1>1. id \in Int /\ 1 <= id /\ id <= 5
  BY DEF n_fields
<1>2. uint32_pack(8 * id) = << 8 * id >>
  <2>1. ~ More(8 * id)
    BY <1>1 DEF More
  <2> QED
    BY <2>1 DEF uint32_pack, PackMore
<1>3. Head(<< 8 * id >>) = 8 * id /\ Tail(<< 8 * id >>) = << >>
  OBVIOUS
<1>4. << 8 * id + wireType >> \o << >> = << 8 * id + wireType >>
  BY <1>1, ConcatEmptySeq
<1>5. get_tag_size(id) = 1
  BY <1>1, SMT DEF get_tag_size
<1> QED
  BY <1>2, <1>3, <1>4, <1>5 DEF tag_pack

(* A tag before the value of a field.                                      *)
LEMMA TaggedLen ==
  ASSUME NEW id \in 1 .. n_fields, NEW wireType \in 0 .. 7, NEW s \in Seq(Byte)
  PROVE  /\ tag_pack(id, wireType) \o s \in Seq(Byte)
         /\ Len(tag_pack(id, wireType) \o s) = get_tag_size(id) + Len(s)
<1> DEFINE b == 8 * id + wireType
<1>1. b \in Byte
  <2>1. b \in Int /\ Below(b, 256)
    BY DEF n_fields, Below
  <2> QED
    BY <2>1, IsByte
<1>2. tag_pack(id, wireType) = << b >> /\ get_tag_size(id) = 1
  <2>1. wireType \in Nat
    OBVIOUS
  <2> QED
    BY <2>1, TagPackLen
<1>3. Len(s) \in Nat
  BY LenProperties
<1> HIDE DEF b
<1>4. << b >> \o s \in Seq(Byte) /\ Len(<< b >> \o s) = Len(s) + 1
  BY <1>1, ByteBefore
<1> QED
  BY <1>2, <1>3, <1>4

LEMMA StringPackLen ==
  ASSUME NEW v \in Text
  PROVE  /\ string_pack(v) \in Seq(Byte)
         /\ Len(string_pack(v)) = uint32_size(Len(v)) + Len(v)
<1>1. v \in Seq(1 .. 255) /\ Len(v) \in Int32
  BY DEF Text
<1>2. v \in Seq(Byte)
  <2>1. \A x \in 1 .. 255 : x \in Int /\ Below(x, 256)
    BY SMT DEF Below
  <2>2. 1 .. 255 \subseteq Byte
    BY <2>1, IsByte, Zenon
  <2> QED
    BY <1>1, <2>2, SeqMonotonic
<1>3. uint32_pack(Len(v)) \in Seq(Byte) /\ Len(uint32_pack(Len(v))) = uint32_size(Len(v))
  BY <1>1, Uint32PackIs
<1> DEFINE u == uint32_pack(Len(v))
<1> HIDE DEF u
<1>4. u \o v \in Seq(Byte) /\ Len(u \o v) = Len(u) + Len(v)
  BY <1>2, <1>3, ConcatProperties DEF u
<1> QED
  BY <1>3, <1>4 DEF string_pack, u

(* The values of a field that a message can have.                          *)
ValuesOf(field) == IF field.type = "STRING" THEN Text ELSE Int32

LEMMA RequiredPackLen ==
  ASSUME NEW field, field.id \in 1 .. n_fields, field.type \in {"ENUM", "SINT32", "STRING"},
         NEW v \in ValuesOf(field)
  PROVE  /\ required_field_pack(field, v) \in Seq(Byte)
         /\ Len(required_field_pack(field, v)) = required_field_get_packed_size(field, v)
<1>0. WIRE_TYPE_VARINT \in 0 .. 7 /\ WIRE_TYPE_LENGTH_PREFIXED \in 0 .. 7
  BY DEF WIRE_TYPE_VARINT, WIRE_TYPE_LENGTH_PREFIXED
<1>1. CASE field.type = "ENUM"
  <2>1. v \in Int32
    BY <1>1 DEF ValuesOf
  <2>2. /\ required_field_pack(field, v) = tag_pack(field.id, WIRE_TYPE_VARINT) \o int32_pack(v)
        /\ required_field_get_packed_size(field, v) = get_tag_size(field.id) + int32_size(v)
    BY <1>1 DEF required_field_pack, required_field_get_packed_size
  <2>3. int32_pack(v) \in Seq(Byte) /\ Len(int32_pack(v)) = int32_size(v)
    BY <2>1, Int32PackLen
  <2> QED
    BY <1>0, <2>2, <2>3, TaggedLen
<1>2. CASE field.type = "SINT32"
  <2>1. zigzag32(v) \in Int32
    BY <1>2, UnzigzagZigzag DEF ValuesOf
  <2>2. /\ required_field_pack(field, v) = tag_pack(field.id, WIRE_TYPE_VARINT) \o sint32_pack(v)
        /\ required_field_get_packed_size(field, v) = get_tag_size(field.id) + sint32_size(v)
    BY <1>2 DEF required_field_pack, required_field_get_packed_size
  <2>3. sint32_pack(v) \in Seq(Byte) /\ Len(sint32_pack(v)) = sint32_size(v)
    BY <2>1, Uint32PackIs DEF sint32_pack, sint32_size
  <2> QED
    BY <1>0, <2>2, <2>3, TaggedLen
<1>3. CASE field.type = "STRING"
  <2>1. v \in Text
    BY <1>3 DEF ValuesOf
  <2>2. /\ required_field_pack(field, v) =
             tag_pack(field.id, WIRE_TYPE_LENGTH_PREFIXED) \o string_pack(v)
        /\ required_field_get_packed_size(field, v) =
             get_tag_size(field.id) + (uint32_size(Len(v)) + Len(v))
    <3>1. required_field_get_packed_size(field, v) =
             get_tag_size(field.id) + (uint32_size(Len(v)) + Len(v))
      BY <1>3 DEF required_field_get_packed_size
    <3> QED
      BY <1>3, <3>1 DEF required_field_pack
  <2>3. string_pack(v) \in Seq(Byte) /\ Len(string_pack(v)) = uint32_size(Len(v)) + Len(v)
    BY <2>1, StringPackLen
  <2> QED
    BY <1>0, <2>2, <2>3, TaggedLen
<1> QED
  BY <1>1, <1>2, <1>3

LEMMA FieldPackLen ==
  ASSUME NEW m \in MessageT, NEW i \in 1 .. n_fields
  PROVE  FieldPack(m, i) \in Seq(Byte) /\ Len(FieldPack(m, i)) = FieldSize(m, i)
<1> DEFINE field == message_t__field_descriptors[i]
           v == m[field.name]
<1>1. /\ field.id \in 1 .. n_fields
      /\ field.type \in {"ENUM", "SINT32", "STRING"}
      /\ v \in ValuesOf(field)
  <2>1. i = 1 \/ i = 2 \/ i = 3 \/ i = 4 \/ i = 5
    BY DEF n_fields
  <2>2. /\ m.opcode \in Int32 /\ m.c_type \in Int32 /\ m.data_size \in Int32
        /\ m.data \in Text /\ m.key \in Text
    BY DEF MessageT
  <2>3. 1 \in 1 .. n_fields /\ 2 \in 1 .. n_fields /\ 3 \in 1 .. n_fields
        /\ 4 \in 1 .. n_fields /\ 5 \in 1 .. n_fields
    BY DEF n_fields
  <2>4. CASE i = 1
    BY <2>2, <2>3, <2>4 DEF message_t__field_descriptors, ValuesOf
  <2>5. CASE i = 2
    BY <2>2, <2>3, <2>5 DEF message_t__field_descriptors, ValuesOf
  <2>6. CASE i = 3
    BY <2>2, <2>3, <2>6 DEF message_t__field_descriptors, ValuesOf
  <2>7. CASE i = 4
    BY <2>2, <2>3, <2>7 DEF message_t__field_descriptors, ValuesOf
  <2>8. CASE i = 5
    BY <2>2, <2>3, <2>8 DEF message_t__field_descriptors, ValuesOf
  <2> QED
    BY <2>1, <2>4, <2>5, <2>6, <2>7, <2>8
<1> HIDE DEF field, v
<1>2. /\ required_field_pack(field, v) \in Seq(Byte)
      /\ Len(required_field_pack(field, v)) = required_field_get_packed_size(field, v)
  BY <1>1, RequiredPackLen
<1>3. << >> \in Seq(Byte) /\ Len(<< >>) = 0
  OBVIOUS
<1>4. /\ FieldPack(m, i) = unlabeled_field_pack(field, v)
      /\ FieldSize(m, i) = unlabeled_field_get_packed_size(field, v)
  BY DEF FieldPack, FieldSize, field, v
<1> QED
  BY <1>2, <1>3, <1>4 DEF unlabeled_field_pack, unlabeled_field_get_packed_size

(* message_get_packed_size is what message_pack writes, for every message: *)
(* the buffers that the client and both servers allocate are never overrun *)
(* and never sent with a tail that was not written.                        *)
THEOREM PackedSizeIsLength ==
  ASSUME NEW m \in MessageT
  PROVE  /\ message_pack(m) \in Seq(Byte)
         /\ Len(message_pack(m)) = message_get_packed_size(m)
<1> DEFINE f(i) == FieldPack(m, i)
           p2 == f(1) \o f(2)
           p3 == p2 \o f(3)
           p4 == p3 \o f(4)
           p5 == p4 \o f(5)
<1>1. \A i \in 1 .. n_fields : f(i) \in Seq(Byte) /\ Len(f(i)) = FieldSize(m, i)
  BY FieldPackLen
<1> HIDE DEF f
<1>2. /\ f(1) \in Seq(Byte) /\ Len(f(1)) = FieldSize(m, 1)
      /\ f(2) \in Seq(Byte) /\ Len(f(2)) = FieldSize(m, 2)
      /\ f(3) \in Seq(Byte) /\ Len(f(3)) = FieldSize(m, 3)
      /\ f(4) \in Seq(Byte) /\ Len(f(4)) = FieldSize(m, 4)
      /\ f(5) \in Seq(Byte) /\ Len(f(5)) = FieldSize(m, 5)
  BY <1>1 DEF n_fields
<1>3. p2 \in Seq(Byte) /\ Len(p2) = Len(f(1)) + Len(f(2))
  BY <1>2, ConcatProperties
<1> HIDE DEF p2
<1>4. p3 \in Seq(Byte) /\ Len(p3) = Len(p2) + Len(f(3))
  BY <1>2, <1>3, ConcatProperties
<1> HIDE DEF p3
<1>5. p4 \in Seq(Byte) /\ Len(p4) = Len(p3) + Len(f(4))
  BY <1>2, <1>4, ConcatProperties
<1> HIDE DEF p4
<1>6. p5 \in Seq(Byte) /\ Len(p5) = Len(p4) + Len(f(5))
  BY <1>2, <1>5, ConcatProperties
<1>7. message_pack(m) = p5
  BY DEF message_pack, f, p2, p3, p4
<1> QED
  BY <1>2, <1>3, <1>4, <1>5, <1>6, <1>7 DEF message_get_packed_size

-----------------------------------------------------------------------------
\* A byte below 128 has no top bit to take away.
LEMMA WithoutTop ==
  ASSUME NEW x \in Int, 0 <= x, x < 128
  PROVE  (x + 128) % 128 = x /\ x % 128 = x
  BY SMT

\* What parse_uint32 adds up.
Weigh(a1, a2, a3, a4, top) ==
  a1 + 128 * a2 + 16384 * a3 + 2097152 * a4 + 268435456 * top

Fifth(d) == d[5]

(* The value of a varint of five bytes whose digits are known, with the    *)
(* last one in either half of its four bits.                               *)
LEMMA ParseLong ==
  ASSUME NEW d, NEW a1 \in Int, NEW a2 \in Int, NEW a3 \in Int, NEW a4 \in Int,
         NEW top \in Int, Fifth(d) = top, Below(top, 16),
         Digit(d, 5, 1) = a1, Digit(d, 5, 2) = a2,
         Digit(d, 5, 3) = a3, Digit(d, 5, 4) = a4
  PROVE  /\ top < 8 => parse_uint32(d, 5) = Weigh(a1, a2, a3, a4, top)
         /\ ~ (top < 8) => parse_uint32(d, 5) = Weigh(a1, a2, a3, a4, top - 16)
<1>1. top % 16 = top
  BY SMT DEF Below
<1> QED
  BY <1>1, SMT DEF parse_uint32, Weigh, Fifth

(* What parse_uint32 finds in the bytes uint32_pack wrote is the word, for *)
(* all 2^32 of them.                                                       *)
THEOREM ParseOfPack ==
  ASSUME NEW w \in Int32
  PROVE  parse_uint32(uint32_pack(w), Len(uint32_pack(w))) = w
<1> DEFINE p == uint32_pack(w)
           n == uint32_size(w)
<1>1. Len(p) = n /\ IsVarintOf(p, n, w, W1(w), W2(w), W3(w), W4(w))
  BY Uint32PackIs
<1>2. /\ w \in Int /\ W1(w) \in Int /\ 0 <= W1(w) /\ W1(w) < 33554432
      /\ Low7(w) \in Int /\ 0 <= Low7(w) /\ Low7(w) < 128
      /\ w >= 0 => w = Low7(w) + 128 * W1(w)
      /\ w < 0 => w = Low7(w) + 128 * W1(w) - Half - Half - Half - Half
  <2>1. w \in Int
    BY DEF Int32
  <2> QED
    BY <2>1, SplitWord, SMT DEF W1
<1>3. /\ W2(w) \in Int /\ 0 <= W2(w) /\ W2(w) < 33554432
      /\ W1(w) = Low7(W1(w)) + 128 * W2(w)
      /\ Low7(W1(w)) \in Int /\ 0 <= Low7(W1(w)) /\ Low7(W1(w)) < 128
  BY <1>2, SplitNat, SMT DEF W2
<1>4. /\ W3(w) \in Int /\ 0 <= W3(w) /\ W3(w) < 33554432
      /\ W2(w) = Low7(W2(w)) + 128 * W3(w)
      /\ Low7(W2(w)) \in Int /\ 0 <= Low7(W2(w)) /\ Low7(W2(w)) < 128
  BY <1>3, SplitNat, SMT DEF W3
<1>5. /\ W4(w) \in Int /\ 0 <= W4(w)
      /\ W3(w) = Low7(W3(w)) + 128 * W4(w)
      /\ Low7(W3(w)) \in Int /\ 0 <= Low7(W3(w)) /\ Low7(W3(w)) < 128
  BY <1>4, SplitNat, SMT DEF W4
<1> HIDE DEF p, n
<1>6. /\ n \in 1 .. 5
      /\ n = 1 => Below(w, 128)
      /\ n = 2 => w >= 0 /\ W1(w) \in 0 .. 127
      /\ n = 3 => w >= 0 /\ W2(w) \in 0 .. 127
      /\ n = 4 => w >= 0 /\ W3(w) \in 0 .. 127
      /\ W4(w) \in 0 .. 15
      /\ w >= 0 => W4(w) < 8
      /\ w < 0 => ~ (W4(w) < 8) /\ n = 5
  <2>1. -Half - Half <= w /\ w <= Half - 1 + Half
    BY SMT DEF Int32
  <2>2. n \in 1 .. 5
    BY SMT DEF n, uint32_size
  <2>3. W4(w) \in 0 .. 15 /\ (w >= 0 => W4(w) < 8) /\ (w < 0 => ~ (W4(w) < 8))
    BY <2>1, <1>2, <1>3, <1>4, <1>5, SMT DEF Half
  <2>4. /\ n = 1 => Below(w, 128)
        /\ n = 2 => w >= 0 /\ W1(w) \in 0 .. 127
    BY <1>2, SMT DEF n, uint32_size, Below
  <2>5. n = 3 => w >= 0 /\ W2(w) \in 0 .. 127
    BY <1>2, <1>3, SMT DEF n, uint32_size, Below
  <2>6. n = 4 => w >= 0 /\ W3(w) \in 0 .. 127
    BY <1>2, <1>3, <1>4, SMT DEF n, uint32_size, Below
  <2>7. w < 0 => n = 5
    BY <1>2, SMT DEF n, uint32_size, Below
  <2> QED
    BY <2>2, <2>3, <2>4, <2>5, <2>6, <2>7
<1> DEFINE a0 == Low7(w)
           a1 == Low7(W1(w))
           a2 == Low7(W2(w))
           a3 == Low7(W3(w))
<1>7. Below(a0, 128) /\ Below(a1, 128) /\ Below(a2, 128) /\ Below(a3, 128)
  BY <1>2, <1>3, <1>4, <1>5 DEF Below
<1>8. /\ w \in Int /\ W1(w) \in Int /\ W2(w) \in Int /\ W3(w) \in Int /\ W4(w) \in Int
      /\ a0 = Low7(w) /\ a1 = Low7(W1(w)) /\ a2 = Low7(W2(w)) /\ a3 = Low7(W3(w))
  BY <1>2, <1>3, <1>4, <1>5, SMT
<1> HIDE DEF a0, a1, a2, a3
<1>9. /\ n \in 1 .. 5
      /\ n = 1 => Below(w, 128)
      /\ n = 2 => Below(W1(w), 128)
      /\ n = 3 => Below(W2(w), 128)
      /\ n = 4 => Below(W3(w), 128)
      /\ n = 5 => Below(W4(w), 16)
  BY <1>6 DEF Below
<1>10. IsVarintOf(p, n, w, W1(w), W2(w), W3(w), W4(w))
  BY <1>1
<1>11. a0 \in Int /\ a1 \in Int /\ a2 \in Int /\ a3 \in Int
  BY <1>2, <1>3, <1>4, <1>5, <1>8
<1>12. /\ n = 1 => parse_uint32(p, n) = Weigh(w, 0, 0, 0, 0)
       /\ n = 2 => parse_uint32(p, n) = Weigh(a0, W1(w), 0, 0, 0)
       /\ n = 3 => parse_uint32(p, n) = Weigh(a0, a1, W2(w), 0, 0)
       /\ n = 4 => parse_uint32(p, n) = Weigh(a0, a1, a2, W3(w), 0)
       /\ n = 5 /\ W4(w) < 8 => parse_uint32(p, n) = Weigh(a0, a1, a2, a3, W4(w))
       /\ n = 5 /\ ~ (W4(w) < 8) => parse_uint32(p, n) = Weigh(a0, a1, a2, a3, W4(w) - 16)
  <2>1. /\ (a0 + 128) % 128 = a0 /\ (a1 + 128) % 128 = a1
        /\ (a2 + 128) % 128 = a2 /\ (a3 + 128) % 128 = a3
    BY <1>7, <1>11, WithoutTop DEF Below
  <2>2. a0 \in Int /\ a1 \in Int /\ a2 \in Int /\ a3 \in Int /\ 0 \in Int
    BY <1>11
  <2>3. CASE n = 1
    <3>1. p[1] % 128 = w
      BY <2>3, <1>8, <1>9, <1>10, WithoutTop DEF IsVarintOf, Below
    <3>2. /\ Digit(p, n, 1) = w /\ Digit(p, n, 2) = 0
          /\ Digit(p, n, 3) = 0 /\ Digit(p, n, 4) = 0
      BY <2>1, <2>3, <3>1, <1>8, <1>10 DEF IsVarintOf, Digit
    <3>3. n \in 1 .. 4
      BY <2>3
    <3>4. parse_uint32(p, n) = Weigh(w, 0, 0, 0, 0)
      BY <2>2, <1>8, <3>2, <3>3, SMT DEF parse_uint32, Weigh
    <3> QED
      BY <2>3, <3>4
  <2>4. CASE n = 2
    <3>1. p[2] % 128 = W1(w)
      BY <2>4, <1>8, <1>9, <1>10, WithoutTop DEF IsVarintOf, Below
    <3>2. /\ Digit(p, n, 1) = a0 /\ Digit(p, n, 2) = W1(w)
          /\ Digit(p, n, 3) = 0 /\ Digit(p, n, 4) = 0
      BY <2>1, <2>4, <3>1, <1>8, <1>10 DEF IsVarintOf, Digit
    <3>3. n \in 1 .. 4
      BY <2>4
    <3>4. parse_uint32(p, n) = Weigh(a0, W1(w), 0, 0, 0)
      BY <2>2, <1>8, <3>2, <3>3, SMT DEF parse_uint32, Weigh
    <3> QED
      BY <2>4, <3>4
  <2>5. CASE n = 3
    <3>1. p[3] % 128 = W2(w)
      BY <2>5, <1>8, <1>9, <1>10, WithoutTop DEF IsVarintOf, Below
    <3>2. /\ Digit(p, n, 1) = a0 /\ Digit(p, n, 2) = a1
          /\ Digit(p, n, 3) = W2(w) /\ Digit(p, n, 4) = 0
      BY <2>1, <2>5, <3>1, <1>8, <1>10 DEF IsVarintOf, Digit
    <3>3. n \in 1 .. 4
      BY <2>5
    <3>4. parse_uint32(p, n) = Weigh(a0, a1, W2(w), 0, 0)
      BY <2>2, <1>8, <3>2, <3>3, SMT DEF parse_uint32, Weigh
    <3> QED
      BY <2>5, <3>4
  <2>6. CASE n = 4
    <3>1. p[4] % 128 = W3(w)
      BY <2>6, <1>8, <1>9, <1>10, WithoutTop DEF IsVarintOf, Below
    <3>2. /\ Digit(p, n, 1) = a0 /\ Digit(p, n, 2) = a1
          /\ Digit(p, n, 3) = a2 /\ Digit(p, n, 4) = W3(w)
      BY <2>1, <2>6, <3>1, <1>8, <1>10 DEF IsVarintOf, Digit
    <3>3. n \in 1 .. 4
      BY <2>6
    <3>4. parse_uint32(p, n) = Weigh(a0, a1, a2, W3(w), 0)
      BY <2>2, <1>8, <3>2, <3>3, SMT DEF parse_uint32, Weigh
    <3> QED
      BY <2>6, <3>4
  <2>7. CASE n = 5
    <3>1. Fifth(p) = W4(w) /\ Below(W4(w), 16)
      BY <2>7, <1>8, <1>9, <1>10 DEF IsVarintOf, Fifth
    <3>2. /\ Digit(p, 5, 1) = a0 /\ Digit(p, 5, 2) = a1
          /\ Digit(p, 5, 3) = a2 /\ Digit(p, 5, 4) = a3
      BY <2>1, <2>7, <1>8, <1>10 DEF IsVarintOf, Digit
    <3>3. /\ W4(w) < 8 => parse_uint32(p, 5) = Weigh(a0, a1, a2, a3, W4(w))
          /\ ~ (W4(w) < 8) => parse_uint32(p, 5) = Weigh(a0, a1, a2, a3, W4(w) - 16)
      BY <2>2, <1>8, <3>1, <3>2, ParseLong
    <3> QED
      BY <2>7, <3>3
  <2> QED
    BY <2>3, <2>4, <2>5, <2>6, <2>7
<1>13. /\ w >= 0 => w = a0 + 128 * W1(w)
       /\ w < 0 => w = a0 + 128 * W1(w) - Half - Half - Half - Half
       /\ W1(w) = a1 + 128 * W2(w)
       /\ W2(w) = a2 + 128 * W3(w)
       /\ W3(w) = a3 + 128 * W4(w)
       /\ a0 \in Int /\ a1 \in Int /\ a2 \in Int /\ a3 \in Int
  BY <1>2, <1>3, <1>4, <1>5, <1>8, SMT
<1>14. parse_uint32(p, n) = w
  <2>1. CASE n = 1
    <3>1. w = Weigh(w, 0, 0, 0, 0)
      BY <1>8, SMT DEF Weigh
    <3> QED
      BY <3>1, <1>12, <2>1
  <2>2. CASE n = 2
    <3>1. w = Weigh(a0, W1(w), 0, 0, 0)
      BY <2>2, <1>6, <1>8, <1>13, SMT DEF Weigh
    <3> QED
      BY <3>1, <1>12, <2>2
  <2>3. CASE n = 3
    <3>1. w = Weigh(a0, a1, W2(w), 0, 0)
      BY <2>3, <1>6, <1>8, <1>13, SMT DEF Weigh
    <3> QED
      BY <3>1, <1>12, <2>3
  <2>4. CASE n = 4
    <3>1. w = Weigh(a0, a1, a2, W3(w), 0)
      BY <2>4, <1>6, <1>8, <1>13, SMT DEF Weigh
    <3> QED
      BY <3>1, <1>12, <2>4
  <2>5. CASE n = 5 /\ W4(w) < 8
    <3>1. w = Weigh(a0, a1, a2, a3, W4(w))
      BY <2>5, <1>6, <1>8, <1>13, SMT DEF Weigh
    <3> QED
      BY <3>1, <1>12, <2>5
  <2>6. CASE n = 5 /\ ~ (W4(w) < 8)
    <3>1. w = Weigh(a0, a1, a2, a3, W4(w) - 16)
      BY <2>6, <1>6, <1>8, <1>13, SMT DEF Weigh, Half
    <3> QED
      BY <3>1, <1>12, <2>6
  <2> QED
    BY <1>9, <2>1, <2>2, <2>3, <2>4, <2>5, <2>6
<1> QED
  BY <1>1, <1>14 DEF p

\* VarintLength is the place of the first byte without a top bit.
LEMMA VarintLengthIs ==
  ASSUME NEW d \in Seq(Byte), NEW most \in {5, 10}
  PROVE  VarintLength(d, most) \in 0 .. Len(d) /\ VarintLength(d, most) <= most
<1> DEFINE ends == {i \in 1 .. Len(d) : i <= most /\ d[i] < 128}
<1>1. CASE ends = {}
  BY <1>1 DEF VarintLength
<1>2. CASE ends # {}
  <2>1. \E i \in ends : \A j \in ends : i <= j
    <3>1. \A i \in ends : i \in Nat /\ 1 <= i /\ i <= 10
      BY SMT
    <3> HIDE DEF ends
    <3> QED
      BY <1>2, <3>1, SMT
  <2> DEFINE n == CHOOSE i \in ends : \A j \in ends : i <= j
  <2>2. n \in ends
    BY <2>1
  <2>3. VarintLength(d, most) = n
    BY <1>2 DEF VarintLength
  <2> HIDE DEF n
  <2> QED
    BY <2>2, <2>3
<1> QED
  BY <1>1, <1>2

\* An element of a sequence of bytes.
LEMMA ByteIs ==
  ASSUME NEW d \in Seq(Byte), NEW i \in 1 .. Len(d)
  PROVE  d[i] \in Int /\ 0 <= d[i] /\ d[i] < 256
<1>1. d[i] \in Byte
  OBVIOUS
<1> DEFINE b == d[i]
<1> HIDE DEF b
<1>2. ASSUME b \in Byte PROVE b \in Int /\ 0 <= b /\ b < 256
  BY <1>2, SMT DEF Byte
<1> QED
  BY <1>1, <1>2 DEF b

\* A digit has seven bits.
LEMMA DigitIs ==
  ASSUME NEW d \in Seq(Byte), NEW n \in 0 .. Len(d), NEW i \in 1 .. 5
  PROVE  Digit(d, n, i) \in Nat
<1>1. CASE i <= n
  <2>1. i \in 1 .. Len(d)
    BY <1>1, LenProperties
  <2>2. d[i] \in Int
    BY <2>1, ByteIs
  <2> QED
    BY <1>1, <2>2, SMT DEF Digit
<1>2. CASE ~ (i <= n)
  BY <1>2, SMT DEF Digit
<1> QED
  BY <1>1, <1>2

\* What parse_uint32 returns is a word.
LEMMA ParseUint32Is ==
  ASSUME NEW d \in Seq(Byte), NEW n \in 0 .. Len(d)
  PROVE  /\ parse_uint32(d, n) \in Int
         /\ ~ (n = 5 /\ d[5] >= 8) /\ n <= 5 => parse_uint32(d, n) \in Nat
<1> DEFINE a1 == Digit(d, n, 1)
           a2 == Digit(d, n, 2)
           a3 == Digit(d, n, 3)
           a4 == Digit(d, n, 4)
           top == IF n > 4 THEN d[5] % 16 ELSE 0
<1>1. a1 \in Nat /\ a2 \in Nat /\ a3 \in Nat /\ a4 \in Nat
  BY DigitIs
<1>2. top \in Nat /\ (~ (n = 5 /\ d[5] >= 8) /\ n <= 5 => top < 8)
  <2>1. CASE n > 4
    <3>1. d[5] \in Int /\ 0 <= d[5]
      BY <2>1, LenProperties, ByteIs
    <3> QED
      BY <2>1, <3>1, SMT
  <2>2. CASE ~ (n > 4)
    BY <2>2, SMT
  <2> QED
    BY <2>1, <2>2
<1>3. parse_uint32(d, n) = a1 + 128 * a2 + 16384 * a3 + 2097152 * a4
                             + 268435456 * (IF top < 8 THEN top ELSE top - 16)
  BY SMT DEF parse_uint32
<1> HIDE DEF a1, a2, a3, a4, top
<1> QED
  BY <1>1, <1>2, <1>3, SMT

\* A member is no longer than what is left.
LEMMA MemberLengthIs ==
  ASSUME NEW d \in Seq(Byte), NEW wire
  PROVE  member_length(d, wire) \in 0 .. Len(d)
<1>0. Len(d) \in Nat
  BY LenProperties
<1>1. scan_length_prefixed_data(d) \in 0 .. Len(d)
  <2> DEFINE hdr_len == VarintLength(d, 5)
             val == parse_uint32(d, hdr_len)
  <2>1. hdr_len \in 0 .. Len(d) /\ hdr_len <= 5
    BY VarintLengthIs
  <2>2. ~ (hdr_len = 5 /\ d[5] >= 8) => val \in Nat
    BY <2>1, ParseUint32Is
  <2> HIDE DEF hdr_len, val
  <2>3. CASE hdr_len = 0 \/ (hdr_len = 5 /\ d[5] >= 8) \/ val > Len(d) - hdr_len
    BY <1>0, <2>3 DEF scan_length_prefixed_data, hdr_len, val
  <2>4. CASE ~ (hdr_len = 0 \/ (hdr_len = 5 /\ d[5] >= 8) \/ val > Len(d) - hdr_len)
    <3>1. scan_length_prefixed_data(d) = hdr_len + val
      BY <2>4 DEF scan_length_prefixed_data, hdr_len, val
    <3> QED
      BY <1>0, <2>1, <2>2, <2>4, <3>1
  <2> QED
    BY <2>3, <2>4
<1>2. VarintLength(d, 10) \in 0 .. Len(d)
  BY VarintLengthIs
<1> QED
  BY <1>0, <1>1, <1>2, SMT
     DEF member_length, WIRE_TYPE_VARINT, WIRE_TYPE_64BIT,
         WIRE_TYPE_LENGTH_PREFIXED, WIRE_TYPE_32BIT

(* A head that is one has an integer tag, whatever the tag is.             *)
LEMMA HeadIs ==
  ASSUME NEW d \in Seq(Byte), d # << >>
  PROVE  /\ parse_tag_and_wiretype(d).used \in 0 .. Len(d)
         /\ parse_tag_and_wiretype(d).wire \in Int
         /\ parse_tag_and_wiretype(d).tag \in Int
<1>1. Len(d) \in Nat /\ 1 \in 1 .. Len(d)
  BY LenProperties, EmptySeq
<1>2. d[1] \in Int
  BY <1>1, ByteIs
<1> DEFINE n == VarintLength(d, 5)
<1>3. n \in 0 .. Len(d)
  BY VarintLengthIs
<1> HIDE DEF n
<1> DEFINE a2 == Digit(d, n, 2)
           a3 == Digit(d, n, 3)
           a4 == Digit(d, n, 4)
           a5 == Digit(d, n, 5)
           tag == (d[1] % 128) \div 8 + 16 * a2 + 2048 * a3
                    + 262144 * a4 + 33554432 * (a5 % 32)
<1>4. a2 \in Nat /\ a3 \in Nat /\ a4 \in Nat /\ a5 \in Nat
  BY <1>3, DigitIs
<1> DEFINE t == IF n = 5 /\ d[5] >= 32 THEN 0 ELSE tag
           u == IF d[1] < 8 THEN 0 ELSE n
           w == d[1] % 8
<1>5. parse_tag_and_wiretype(d) = [used |-> u, wire |-> w, tag |-> t]
  BY DEF parse_tag_and_wiretype, n
<1> HIDE DEF a2, a3, a4, a5
<1>6. tag \in Int /\ w \in Int
  BY <1>2, <1>4, SMT
<1> HIDE DEF tag
<1>7. t \in Int /\ u \in 0 .. Len(d)
  BY <1>1, <1>3, <1>6
<1> HIDE DEF t, u, w
<1> QED
  BY <1>5, <1>6, <1>7

-----------------------------------------------------------------------------

-----------------------------------------------------------------------------
(* Packed messages tell each other apart.                                  *)

(* Where the first varint of a sequence ends.                              *)
EndsVarint(d, n) ==
  /\ n \in 1 .. Len(d) /\ d[n] < 128
  /\ \A i \in 1 .. n - 1 : d[i] >= 128

\* The bytes of a concatenation.
LEMMA ConcatBegins ==
  ASSUME NEW s \in Seq(Byte), NEW t \in Seq(Byte)
  PROVE  /\ s \o t \in Seq(Byte) /\ Len(s \o t) = Len(s) + Len(t)
         /\ Len(s) \in Nat /\ Len(t) \in Nat
         /\ \A i \in 1 .. Len(s) : (s \o t)[i] = s[i]
         /\ \A i \in 1 .. Len(t) : (s \o t)[Len(s) + i] = t[i]
<1>1. /\ s \o t \in Seq(Byte) /\ Len(s \o t) = Len(s) + Len(t)
      /\ \A i \in 1 .. Len(s) + Len(t) : (s \o t)[i] = IF i <= Len(s) THEN s[i] ELSE t[i - Len(s)]
  BY ConcatProperties
<1>2. Len(s) \in Nat /\ Len(t) \in Nat
  BY LenProperties
<1>3. ASSUME NEW i \in 1 .. Len(s) PROVE (s \o t)[i] = s[i]
  <2>1. i \in 1 .. Len(s) + Len(t) /\ i <= Len(s)
    BY <1>2
  <2> QED BY <1>1, <2>1
<1>4. ASSUME NEW i \in 1 .. Len(t) PROVE (s \o t)[Len(s) + i] = t[i]
  <2>1. Len(s) + i \in 1 .. Len(s) + Len(t) /\ ~(Len(s) + i <= Len(s)) /\ (Len(s) + i) - Len(s) = i
    BY <1>2
  <2> QED BY <1>1, <2>1
<1> QED BY <1>1, <1>2, <1>3, <1>4

\* Concatenation associates.
LEMMA BytesAssociate ==
  ASSUME NEW s \in Seq(Byte), NEW t \in Seq(Byte), NEW u \in Seq(Byte)
  PROVE  (s \o t) \o u = s \o (t \o u)
BY ConcatAssociative

\* The end of a varint does not depend on what follows it.
LEMMA EndsInFront ==
  ASSUME NEW s \in Seq(Byte), NEW t \in Seq(Byte), EndsVarint(s, Len(s))
  PROVE  EndsVarint(s \o t, Len(s))
<1>1. Len(s) \in 1 .. Len(s \o t) /\ (s \o t)[Len(s)] = s[Len(s)]
  BY ConcatBegins DEF EndsVarint
<1>2. \A i \in 1 .. Len(s) - 1 : i \in 1 .. Len(s)
  BY ConcatBegins
<1> QED BY <1>1, <1>2, ConcatBegins DEF EndsVarint

\* There is one end.
LEMMA OneEndOnly ==
  ASSUME NEW d \in Seq(Byte), NEW m, NEW n, EndsVarint(d, m), EndsVarint(d, n)
  PROVE  m = n
<1>1. m \in Nat /\ n \in Nat /\ 1 <= m /\ 1 <= n /\ Len(d) \in Nat
  BY LenProperties DEF EndsVarint
<1>2. CASE m < n
  <2>1. m \in 1 .. n - 1 /\ m \in 1 .. Len(d)
    BY <1>1, <1>2 DEF EndsVarint
  <2> QED BY <2>1, ByteIs DEF EndsVarint
<1>3. CASE n < m
  <2>1. n \in 1 .. m - 1 /\ n \in 1 .. Len(d)
    BY <1>1, <1>3 DEF EndsVarint
  <2> QED BY <2>1, ByteIs DEF EndsVarint
<1> QED BY <1>1, <1>2, <1>3

(* Equal beginnings of the same length can be taken away.                  *)
LEMMA SameParts ==
  ASSUME NEW a \in Seq(Byte), NEW b \in Seq(Byte), NEW s \in Seq(Byte), NEW t \in Seq(Byte),
         a \o s = b \o t, Len(a) = Len(b)
  PROVE  a = b /\ s = t
<1>1. a = b
  <2>1. \A i \in 1 .. Len(a) : a[i] = b[i]
    <3>1. \A i \in 1 .. Len(a) : a[i] = (a \o s)[i] /\ b[i] = (b \o t)[i]
      BY ConcatBegins
    <3> QED BY <3>1
  <2> QED BY <2>1, SeqEqual
<1> QED BY <1>1, ConcatSimplifications

\* Varints of different words are no prefixes of one another.
LEMMA VarintsApart ==
  ASSUME NEW a \in Seq(Byte), NEW b \in Seq(Byte), NEW s \in Seq(Byte), NEW t \in Seq(Byte),
         a \o s = b \o t, EndsVarint(a, Len(a)), EndsVarint(b, Len(b))
  PROVE  a = b /\ s = t
<1>1. EndsVarint(a \o s, Len(a)) /\ EndsVarint(b \o t, Len(b))
  BY EndsInFront
<1>2. a \o s \in Seq(Byte)
  BY ConcatBegins
<1>3. Len(a) = Len(b)
  BY <1>1, <1>2, OneEndOnly
<1> QED BY <1>3, SameParts

-----------------------------------------------------------------------------
(* Varints end with their last byte.                                       *)
LEMMA Uint32Ends ==
  ASSUME NEW w \in Int32
  PROVE  /\ EndsVarint(uint32_pack(w), Len(uint32_pack(w)))
         /\ Len(uint32_pack(w)) \in 1 .. 5
<1> DEFINE p == uint32_pack(w)
           n == uint32_size(w)
           w1 == W1(w)
           w2 == W2(w)
           w3 == W3(w)
           w4 == W4(w)
<1>1. Len(p) = n /\ IsVarintOf(p, n, w, w1, w2, w3, w4)
  BY Uint32PackIs
<1>2. /\ w \in Int /\ w1 \in Int /\ 0 <= w1 /\ w1 < 33554432
      /\ Low7(w) \in Int /\ 0 <= Low7(w) /\ Low7(w) < 128
      /\ w >= 0 => w = Low7(w) + 128 * w1
  <2>1. w \in Int
    BY DEF Int32
  <2> QED BY <2>1, SplitWord, SMT DEF W1
<1>3. /\ w2 \in Int /\ 0 <= w2 /\ w2 < 33554432
      /\ w1 = Low7(w1) + 128 * w2 /\ Low7(w1) \in Int /\ 0 <= Low7(w1) /\ Low7(w1) < 128
  BY <1>2, SplitNat, SMT DEF W2
<1>4. /\ w3 \in Int /\ 0 <= w3 /\ w3 < 33554432
      /\ w2 = Low7(w2) + 128 * w3 /\ Low7(w2) \in Int /\ 0 <= Low7(w2) /\ Low7(w2) < 128
  BY <1>3, SplitNat, SMT DEF W3
<1>5. /\ w4 \in Int /\ 0 <= w4
      /\ w3 = Low7(w3) + 128 * w4 /\ Low7(w3) \in Int /\ 0 <= Low7(w3) /\ Low7(w3) < 128
  BY <1>4, SplitNat, SMT DEF W4
<1>6. /\ n \in 1 .. 5
      /\ n < 5 => w >= 0
      /\ n = 1 => w < 128
      /\ n = 2 => w < 16384
      /\ n = 3 => w < 2097152
      /\ n = 4 => w < 268435456
  BY <1>2, SMT DEF uint32_size, Below
<1> HIDE DEF n, p, w1, w2, w3, w4
<1>7. /\ n = 2 => w1 < 128
      /\ n = 3 => w2 < 128
      /\ n = 4 => w3 < 128
      /\ w4 < 128
  <2>1. n = 2 => w1 < 128
    BY <1>2, <1>6, SMT
  <2>2. n = 3 => w2 < 128
    BY <1>2, <1>3, <1>6, SMT
  <2>3. n = 4 => w3 < 128
    BY <1>2, <1>3, <1>4, <1>6, SMT
  <2>4. w2 < 262144
    BY <1>2, <1>3, SMT
  <2>5. w3 < 2048
    BY <2>4, <1>3, <1>4, SMT
  <2>6. w4 < 128
    BY <2>5, <1>4, <1>5, SMT
  <2> QED BY <2>1, <2>2, <2>3, <2>6
<1>8. p[n] < 128
  BY <1>1, <1>6, <1>7, SMT DEF IsVarintOf
<1>9. ASSUME NEW i \in 1 .. n - 1 PROVE p[i] >= 128
  <2>1. i = 1 \/ i = 2 \/ i = 3 \/ i = 4
    BY <1>6
  <2>2. i < n
    BY <1>6
  <2>3. CASE i = 1
    BY <1>1, <1>2, <2>2, <2>3 DEF IsVarintOf
  <2>4. CASE i = 2
    BY <1>1, <1>3, <2>2, <2>4 DEF IsVarintOf
  <2>5. CASE i = 3
    BY <1>1, <1>4, <2>2, <2>5 DEF IsVarintOf
  <2>6. CASE i = 4
    BY <1>1, <1>5, <2>2, <2>6 DEF IsVarintOf
  <2> QED BY <2>1, <2>3, <2>4, <2>5, <2>6
<1>10. n \in 1 .. Len(p) /\ Len(p) = n
  BY <1>1, <1>6
<1> QED BY <1>6, <1>8, <1>9, <1>10 DEF EndsVarint, p

LEMMA Uint32Apart ==
  ASSUME NEW v \in Int32, NEW w \in Int32, uint32_pack(v) = uint32_pack(w)
  PROVE  v = w
<1>1. parse_uint32(uint32_pack(v), Len(uint32_pack(v))) = v
  BY ParseOfPack
<1>2. parse_uint32(uint32_pack(w), Len(uint32_pack(w))) = w
  BY ParseOfPack
<1> QED BY <1>1, <1>2

(* The ten bytes of a negative number.                                     *)
LEMMA NegativePackIs ==
  ASSUME NEW v \in Int32, v < 0
  PROVE  LET p == int32_pack(v)
         IN  /\ Len(p) = 10 /\ p \in Seq(Byte)
             /\ p[1] = Low7(v) + 128 /\ p[2] = Low7(v \div 128) + 128
             /\ p[3] = Low7(v \div 16384) + 128 /\ p[4] = Low7(v \div 2097152) + 128
             /\ p[5] = Low7(v \div 268435456) + 128
             /\ p[6] = 255 /\ p[7] = 255 /\ p[8] = 255 /\ p[9] = 255 /\ p[10] = 1
<1> DEFINE b(x) == Low7(x) + 128
           s == << b(v), b(v \div 128), b(v \div 16384), b(v \div 2097152),
                   b(v \div 268435456), 255, 255, 255, 255, 1 >>
<1>1. int32_pack(v) = s
  BY DEF int32_pack
<1> HIDE DEF b
<1>2. /\ s[1] = b(v) /\ s[2] = b(v \div 128) /\ s[3] = b(v \div 16384)
      /\ s[4] = b(v \div 2097152) /\ s[5] = b(v \div 268435456)
      /\ s[6] = 255 /\ s[7] = 255 /\ s[8] = 255 /\ s[9] = 255 /\ s[10] = 1
      /\ Len(s) = 10
  OBVIOUS
<1>3. int32_pack(v) \in Seq(Byte)
  BY Int32PackLen
<1> HIDE DEF s
<1> QED BY <1>1, <1>2, <1>3 DEF b

\* The digits of a word.
LEMMA Low7Is ==
  ASSUME NEW x \in Int
  PROVE  Low7(x) \in Int /\ 0 <= Low7(x) /\ Low7(x) < 128 /\ x = 128 * (x \div 128) + Low7(x)
         /\ x \div 128 \in Int
BY SMT DEF Low7

LEMMA Shifts ==
  ASSUME NEW v \in Int
  PROVE  /\ v \div 128 \in Int /\ v \div 16384 = (v \div 128) \div 128
         /\ v \div 2097152 = (v \div 16384) \div 128
         /\ v \div 268435456 = (v \div 2097152) \div 128
BY SMT

\* A negative enum takes ten bytes.
LEMMA NegativeEnds ==
  ASSUME NEW v \in Int32, v < 0
  PROVE  LET p == int32_pack(v) IN EndsVarint(p, Len(p))
<1> DEFINE p == int32_pack(v)
<1>1. Len(p) = 10 /\ p[10] = 1
  BY NegativePackIs
<1>2. v \in Int
  BY DEF Int32
<1>3. ASSUME NEW i \in 1 .. 9 PROVE p[i] >= 128
  <2>1. /\ Low7(v) >= 0 /\ Low7(v \div 128) >= 0 /\ Low7(v \div 16384) >= 0
        /\ Low7(v \div 2097152) >= 0 /\ Low7(v \div 268435456) >= 0
        /\ Low7(v) \in Int /\ Low7(v \div 128) \in Int /\ Low7(v \div 16384) \in Int
        /\ Low7(v \div 2097152) \in Int /\ Low7(v \div 268435456) \in Int
    BY <1>2, SMT DEF Low7
  <2>2. /\ p[1] = Low7(v) + 128 /\ p[2] = Low7(v \div 128) + 128
        /\ p[3] = Low7(v \div 16384) + 128 /\ p[4] = Low7(v \div 2097152) + 128
        /\ p[5] = Low7(v \div 268435456) + 128
    BY NegativePackIs
  <2>3. p[6] = 255 /\ p[7] = 255 /\ p[8] = 255 /\ p[9] = 255
    BY NegativePackIs
  <2> HIDE DEF p
  <2>4. i \in 1 .. 5 \/ i \in 6 .. 9
    OBVIOUS
  <2>5. CASE i \in 1 .. 5
    BY <2>1, <2>2, <2>5
  <2>6. CASE i \in 6 .. 9
    BY <2>3, <2>6
  <2> QED BY <2>4, <2>5, <2>6
<1> HIDE DEF p
<1> QED BY <1>1, <1>3 DEF EndsVarint, p

LEMMA Int32Ends ==
  ASSUME NEW v \in Int32
  PROVE  LET p == int32_pack(v) IN p \in Seq(Byte) /\ EndsVarint(p, Len(p))
<1>1. CASE v < 0
  BY <1>1, NegativeEnds, Int32PackLen
<1>2. CASE ~(v < 0)
  <2>1. int32_pack(v) = uint32_pack(v)
    BY <1>2 DEF int32_pack
  <2> QED BY <2>1, Uint32Ends, Int32PackLen
<1> QED BY <1>1, <1>2

\* A word is told by its digits.
LEMMA SameDivision ==
  ASSUME NEW x \in Int, NEW y \in Int, Low7(x) + 128 = Low7(y) + 128, x \div 128 = y \div 128
  PROVE  x = y
<1>1. Low7(x) \in Int /\ Low7(y) \in Int
  BY Low7Is
<1>2. Low7(x) = Low7(y)
  BY <1>1
<1>3. x = 128 * (x \div 128) + Low7(x) /\ y = 128 * (y \div 128) + Low7(y)
  BY Low7Is
<1> QED BY <1>2, <1>3

LEMMA NegativesApart ==
  ASSUME NEW v \in Int32, NEW w \in Int32, v < 0, w < 0, int32_pack(v) = int32_pack(w)
  PROVE  v = w
<1>1. v \in Int /\ w \in Int /\ -2147483648 <= v /\ -2147483648 <= w
  BY DEF Int32, Half
<1>2. /\ Low7(v) + 128 = Low7(w) + 128
      /\ Low7(v \div 128) + 128 = Low7(w \div 128) + 128
      /\ Low7(v \div 16384) + 128 = Low7(w \div 16384) + 128
      /\ Low7(v \div 2097152) + 128 = Low7(w \div 2097152) + 128
      /\ Low7(v \div 268435456) + 128 = Low7(w \div 268435456) + 128
  BY NegativePackIs
<1> DEFINE v1 == v \div 128
           w1 == w \div 128
           v2 == v \div 16384
           w2 == w \div 16384
           v3 == v \div 2097152
           w3 == w \div 2097152
           v4 == v \div 268435456
           w4 == w \div 268435456
<1>3. /\ v1 \in Int /\ v2 \in Int /\ v3 \in Int /\ v4 \in Int
      /\ w1 \in Int /\ w2 \in Int /\ w3 \in Int /\ w4 \in Int
  BY <1>1, SMT
<1>4. /\ v2 = v1 \div 128 /\ v3 = v2 \div 128 /\ v4 = v3 \div 128
      /\ w2 = w1 \div 128 /\ w3 = w2 \div 128 /\ w4 = w3 \div 128
  BY <1>1, Shifts
<1>5. v4 \in -8 .. -1 /\ w4 \in -8 .. -1
  BY <1>1, SMT
<1>6. v4 = w4
  <2>1. Low7(v4) = v4 + 128 /\ Low7(w4) = w4 + 128
    BY <1>5, SMT DEF Low7
  <2> QED BY <1>2, <1>3, <2>1
<1> HIDE DEF v1, v2, v3, v4, w1, w2, w3, w4
<1>a. /\ Low7(v3) + 128 = Low7(w3) + 128 /\ Low7(v2) + 128 = Low7(w2) + 128
      /\ Low7(v1) + 128 = Low7(w1) + 128
  BY <1>2 DEF v1, v2, v3, w1, w2, w3
<1>b. v1 = v \div 128 /\ w1 = w \div 128
  BY DEF v1, w1
<1>7. v3 = w3
  BY <1>3, <1>4, <1>6, <1>a, SameDivision
<1>8. v2 = w2
  BY <1>3, <1>4, <1>7, <1>a, SameDivision
<1>9. v1 = w1
  BY <1>3, <1>4, <1>8, <1>a, SameDivision
<1> QED BY <1>1, <1>2, <1>9, <1>b, SameDivision

LEMMA Int32Apart ==
  ASSUME NEW v \in Int32, NEW w \in Int32, int32_pack(v) = int32_pack(w)
  PROVE  v = w
<1>1. CASE v < 0 /\ w < 0
  BY <1>1, NegativesApart
<1>2. CASE ~(v < 0) /\ ~(w < 0)
  <2>1. int32_pack(v) = uint32_pack(v) /\ int32_pack(w) = uint32_pack(w)
    BY <1>2 DEF int32_pack
  <2> QED BY <2>1, Uint32Apart
<1>3. CASE v < 0 /\ ~(w < 0)
  <2>1. Len(int32_pack(v)) = 10 /\ int32_pack(w) = uint32_pack(w)
    BY <1>3, NegativePackIs DEF int32_pack
  <2>2. Len(uint32_pack(w)) \in 1 .. 5
    BY Uint32Ends
  <2> QED BY <2>1, <2>2
<1>4. CASE ~(v < 0) /\ w < 0
  <2>1. Len(int32_pack(w)) = 10 /\ int32_pack(v) = uint32_pack(v)
    BY <1>4, NegativePackIs DEF int32_pack
  <2>2. Len(uint32_pack(v)) \in 1 .. 5
    BY Uint32Ends
  <2> QED BY <2>1, <2>2
<1> QED BY <1>1, <1>2, <1>3, <1>4

-----------------------------------------------------------------------------
(* A packed field tells its value, whatever follows it.                    *)
FieldAt(i) == message_t__field_descriptors[i]
\* Field i, its first byte and when it is left out.
ValueOf(m, i) == m[FieldAt(i).name]
TagByte(i) == 8 * i + (IF i \in {4, 5} THEN 2 ELSE 0)

\* Text is bytes.
LEMMA TextIsBytes ==
  ASSUME NEW v \in Text
  PROVE  v \in Seq(Byte)
<1>1. v \in Seq(1 .. 255)
  BY DEF Text
<1>2. \A x \in 1 .. 255 : x \in Int /\ Below(x, 256)
  BY SMT DEF Below
<1>3. 1 .. 255 \subseteq Byte
  BY <1>2, IsByte, Zenon
<1> QED BY <1>1, <1>3, SeqMonotonic

\* The five fields.
LEMMA FieldIs ==
  ASSUME NEW i \in 1 .. n_fields, NEW m \in MessageT
  PROVE  /\ FieldAt(i).id = i
         /\ i \in 1 .. 2 => FieldAt(i).type = "ENUM" /\ ValueOf(m, i) \in Int32
         /\ i = 3 => FieldAt(i).type = "SINT32" /\ ValueOf(m, i) \in Int32
         /\ i \in 4 .. 5 => FieldAt(i).type = "STRING" /\ ValueOf(m, i) \in Text
         /\ ValueOf(m, 1) = m.opcode /\ ValueOf(m, 2) = m.c_type /\ ValueOf(m, 3) = m.data_size
         /\ ValueOf(m, 4) = m.data /\ ValueOf(m, 5) = m.key
<1>1. i = 1 \/ i = 2 \/ i = 3 \/ i = 4 \/ i = 5
  BY DEF n_fields
<1>2. /\ m.opcode \in Int32 /\ m.c_type \in Int32 /\ m.data_size \in Int32
      /\ m.data \in Text /\ m.key \in Text
  BY DEF MessageT
<1>3. /\ ValueOf(m, 1) = m.opcode /\ ValueOf(m, 2) = m.c_type /\ ValueOf(m, 3) = m.data_size
      /\ ValueOf(m, 4) = m.data /\ ValueOf(m, 5) = m.key
  BY DEF ValueOf, FieldAt, message_t__field_descriptors
<1>4. /\ FieldAt(1).id = 1 /\ FieldAt(2).id = 2 /\ FieldAt(3).id = 3
      /\ FieldAt(4).id = 4 /\ FieldAt(5).id = 5
      /\ FieldAt(1).type = "ENUM" /\ FieldAt(2).type = "ENUM" /\ FieldAt(3).type = "SINT32"
      /\ FieldAt(4).type = "STRING" /\ FieldAt(5).type = "STRING"
  BY DEF FieldAt, message_t__field_descriptors
<1>5. /\ 1 \notin 4 .. 5 /\ 2 \notin 4 .. 5 /\ 3 \notin 1 .. 2 /\ 3 \notin 4 .. 5
      /\ 4 \notin 1 .. 2 /\ 5 \notin 1 .. 2
  OBVIOUS
<1> QED BY <1>1, <1>2, <1>3, <1>4, <1>5

(* The bytes of a value behind the tag.                                    *)
Code(i, v) == CASE i \in 1 .. 2 -> int32_pack(v)
                [] i = 3 -> sint32_pack(v)
                [] i \in 4 .. 5 -> string_pack(v)

\* When field i is left out.
IsZero(i, v) == IF i \in 4 .. 5 THEN v = << >> ELSE v = 0

\* A field is left out, or its byte comes before its code.
LEMMA FieldPackIs ==
  ASSUME NEW i \in 1 .. n_fields, NEW m \in MessageT
  PROVE  /\ FieldPack(m, i) = IF IsZero(i, ValueOf(m, i)) THEN << >>
                              ELSE << TagByte(i) >> \o Code(i, ValueOf(m, i))
         /\ Code(i, ValueOf(m, i)) \in Seq(Byte) /\ TagByte(i) \in Byte
<1> DEFINE f == FieldAt(i)
           v == ValueOf(m, i)
<1>0. i \in Int /\ 1 <= i /\ i <= 5
  BY DEF n_fields
<1>1. FieldPack(m, i) = IF field_is_zeroish(f, v) THEN << >> ELSE required_field_pack(f, v)
  BY DEF FieldPack, unlabeled_field_pack, ValueOf, FieldAt
<1>2. field_is_zeroish(f, v) <=> IsZero(i, v)
  <2>1. CASE i \in 4 .. 5
    BY <2>1, FieldIs DEF field_is_zeroish, IsZero
  <2>2. CASE i \in 1 .. 2
    <3>1. f.type # "STRING" /\ i \notin 4 .. 5
      BY <2>2, FieldIs
    <3> QED BY <3>1 DEF field_is_zeroish, IsZero
  <2>3. CASE i = 3
    <3>1. f.type # "STRING" /\ i \notin 4 .. 5
      BY <2>3, FieldIs
    <3> QED BY <3>1 DEF field_is_zeroish, IsZero
  <2> QED BY <1>0, <2>1, <2>2, <2>3
<1>3. /\ required_field_pack(f, v) = << TagByte(i) >> \o Code(i, v)
      /\ Code(i, v) \in Seq(Byte)
  <2>1. f.id = i
    BY FieldIs
  <2>2. tag_pack(i, WIRE_TYPE_VARINT) = << 8 * i >>
    BY TagPackLen DEF WIRE_TYPE_VARINT
  <2>3. tag_pack(i, WIRE_TYPE_LENGTH_PREFIXED) = << 8 * i + 2 >>
    BY TagPackLen DEF WIRE_TYPE_LENGTH_PREFIXED
  <2>4. CASE i \in 1 .. 2
    <3>1. f.type = "ENUM" /\ v \in Int32 /\ i \notin {4, 5} /\ i # 3
      BY <2>4, FieldIs
    <3>2. Code(i, v) = int32_pack(v) /\ TagByte(i) = 8 * i
      BY <1>0, <2>4, <3>1 DEF Code, TagByte
    <3>3. required_field_pack(f, v) = tag_pack(f.id, WIRE_TYPE_VARINT) \o int32_pack(v)
      BY <3>1 DEF required_field_pack
    <3> QED BY <2>1, <2>2, <3>1, <3>2, <3>3, Int32PackLen
  <2>5. CASE i = 3
    <3>1. f.type = "SINT32" /\ v \in Int32
      BY <2>5, FieldIs
    <3>2. Code(i, v) = sint32_pack(v) /\ TagByte(i) = 8 * i
      BY <2>5 DEF Code, TagByte
    <3>3. required_field_pack(f, v) = tag_pack(f.id, WIRE_TYPE_VARINT) \o sint32_pack(v)
      BY <3>1 DEF required_field_pack
    <3>4. sint32_pack(v) \in Seq(Byte)
      BY <3>1, UnzigzagZigzag, Uint32PackIs DEF sint32_pack
    <3> QED BY <2>1, <2>2, <3>2, <3>3, <3>4
  <2>6. CASE i \in 4 .. 5
    <3>1. f.type = "STRING" /\ v \in Text /\ i \notin 1 .. 2 /\ i # 3
      BY <2>6, FieldIs
    <3>2. Code(i, v) = string_pack(v) /\ TagByte(i) = 8 * i + 2
      <4>1. Code(i, v) = string_pack(v)
        BY <2>6, <3>1 DEF Code
      <4>2. TagByte(i) = 8 * i + 2
        BY <2>6 DEF TagByte
      <4> QED BY <4>1, <4>2
    <3>3. required_field_pack(f, v) = tag_pack(f.id, WIRE_TYPE_LENGTH_PREFIXED) \o string_pack(v)
      BY <3>1 DEF required_field_pack
    <3> QED BY <2>1, <2>3, <3>1, <3>2, <3>3, StringPackLen
  <2> QED BY <1>0, <2>4, <2>5, <2>6
<1>4. TagByte(i) \in Byte
  BY <1>0 DEF TagByte, Byte
<1> QED BY <1>1, <1>2, <1>3, <1>4

(* The end of a value shows: what is told apart by its bytes is told apart *)
(* with anything behind them.                                              *)
LEMMA SameCodes ==
  ASSUME NEW i \in 1 .. n_fields, NEW m \in MessageT, NEW n \in MessageT,
         NEW s \in Seq(Byte), NEW t \in Seq(Byte),
         Code(i, ValueOf(m, i)) \o s = Code(i, ValueOf(n, i)) \o t
  PROVE  ValueOf(m, i) = ValueOf(n, i) /\ s = t
<1> DEFINE v == ValueOf(m, i)
           w == ValueOf(n, i)
<1>0. i \in Int /\ 1 <= i /\ i <= 5
  BY DEF n_fields
<1>1. CASE i \in 1 .. 2
  <2>1. v \in Int32 /\ w \in Int32
    BY <1>1, FieldIs
  <2>2. Code(i, v) = int32_pack(v) /\ Code(i, w) = int32_pack(w)
    BY <1>1 DEF Code
  <2>3. int32_pack(v) = int32_pack(w) /\ s = t
    BY <2>1, <2>2, Int32Ends, VarintsApart
  <2> QED BY <2>1, <2>3, Int32Apart
<1>2. CASE i = 3
  <2>1. v \in Int32 /\ w \in Int32
    BY <1>2, FieldIs
  <2>2. Code(i, v) = uint32_pack(zigzag32(v)) /\ Code(i, w) = uint32_pack(zigzag32(w))
    BY <1>2 DEF Code, sint32_pack
  <2>3. zigzag32(v) \in Int32 /\ zigzag32(w) \in Int32
    BY <2>1, UnzigzagZigzag
  <2>4. uint32_pack(zigzag32(v)) = uint32_pack(zigzag32(w)) /\ s = t
    BY <2>2, <2>3, Uint32Ends, Uint32PackIs, VarintsApart
  <2>5. zigzag32(v) = zigzag32(w)
    BY <2>3, <2>4, Uint32Apart
  <2> QED BY <2>1, <2>4, <2>5, UnzigzagZigzag
<1>3. CASE i \in 4 .. 5
  <2>1. v \in Text /\ w \in Text
    BY <1>3, FieldIs
  <2>2. Code(i, v) = string_pack(v) /\ Code(i, w) = string_pack(w)
    BY <1>3 DEF Code
  <2>3. v \in Seq(Byte) /\ w \in Seq(Byte) /\ Len(v) \in Int32 /\ Len(w) \in Int32
    BY <2>1, TextIsBytes DEF Text
  <2> DEFINE a == uint32_pack(Len(v))
             b == uint32_pack(Len(w))
  <2>4. a \in Seq(Byte) /\ b \in Seq(Byte) /\ EndsVarint(a, Len(a)) /\ EndsVarint(b, Len(b))
    BY <2>3, Uint32PackIs, Uint32Ends
  <2>5. string_pack(v) = a \o v /\ string_pack(w) = b \o w
    BY DEF string_pack
  <2>6. a = b => Len(v) = Len(w)
    BY <2>3, Uint32Apart
  <2> HIDE DEF a, b, v, w
  <2>7. a \o (v \o s) = b \o (w \o t)
    <3>1. (a \o v) \o s = a \o (v \o s) /\ (b \o w) \o t = b \o (w \o t)
      BY <2>3, <2>4, BytesAssociate
    <3> QED BY <2>2, <2>5, <3>1 DEF v, w
  <2>8. v \o s \in Seq(Byte) /\ w \o t \in Seq(Byte)
    BY <2>3, ConcatBegins
  <2>9. a = b /\ v \o s = w \o t
    BY <2>4, <2>7, <2>8, VarintsApart
  <2> QED BY <2>3, <2>6, <2>9, SameParts DEF v, w
<1> QED BY <1>0, <1>1, <1>2, <1>3

(* Two messages have the same value in the field, and the same behind it.  *)
SameFrom(m, n, i, s, t) == ValueOf(m, i) = ValueOf(n, i) /\ s = t

\* The codes of different values are no prefixes of one another.
LEMMA CodesApart ==
  ASSUME NEW i \in 1 .. n_fields, NEW m \in MessageT, NEW n \in MessageT,
         NEW s \in Seq(Byte), NEW t \in Seq(Byte),
         Code(i, ValueOf(m, i)) \o s = Code(i, ValueOf(n, i)) \o t
  PROVE  SameFrom(m, n, i, s, t)
<1>1. ValueOf(m, i) = ValueOf(n, i) /\ s = t
  BY SameCodes
<1> QED BY <1>1, Zenon DEF SameFrom

(* The field has no tag at the beginning of what follows it.               *)
NotTagged(s, i) == s # << >> => s[1] # TagByte(i)

\* Nor are the fields.
LEMMA FieldsApart ==
  ASSUME NEW i \in 1 .. n_fields, NEW m \in MessageT, NEW n \in MessageT,
         NEW s \in Seq(Byte), NEW t \in Seq(Byte),
         NotTagged(s, i), NotTagged(t, i),
         FieldPack(m, i) \o s = FieldPack(n, i) \o t
  PROVE  SameFrom(m, n, i, s, t)
<1> DEFINE v == ValueOf(m, i)
           w == ValueOf(n, i)
           a == Code(i, v)
           b == Code(i, w)
           tag == TagByte(i)
<1>1. /\ FieldPack(m, i) = IF IsZero(i, v) THEN << >> ELSE << tag >> \o a
      /\ FieldPack(n, i) = IF IsZero(i, w) THEN << >> ELSE << tag >> \o b
      /\ a \in Seq(Byte) /\ b \in Seq(Byte) /\ tag \in Byte
  BY FieldPackIs
<1>2. << >> \o s = s /\ << >> \o t = t
  BY ConcatEmptySeq
<1>3. IsZero(i, v) /\ IsZero(i, w) => v = w
  BY DEF IsZero
<1>4. ASSUME a \o s = b \o t PROVE SameFrom(m, n, i, s, t)
  <2>1. Code(i, ValueOf(m, i)) \o s = Code(i, ValueOf(n, i)) \o t
    BY <1>4
  <2> HIDE DEF v, w, a, b, tag
  <2> QED BY <2>1, CodesApart, Zenon
<1> HIDE DEF v, w, a, b, tag
<1>5. /\ << tag >> \in Seq(Byte)
      /\ (<< tag >> \o a) \o s = << tag >> \o (a \o s)
      /\ (<< tag >> \o b) \o t = << tag >> \o (b \o t)
      /\ a \o s \in Seq(Byte) /\ b \o t \in Seq(Byte)
  <2>1. << tag >> \in Seq(Byte)
    BY <1>1
  <2> QED BY <1>1, <2>1, BytesAssociate, ConcatBegins
<1>6. /\ (<< tag >> \o (a \o s))[1] = tag /\ (<< tag >> \o (b \o t))[1] = tag
      /\ Len(<< tag >> \o (a \o s)) > 0 /\ Len(<< tag >> \o (b \o t)) > 0
  BY <1>1, <1>5, ByteBefore, LenProperties
<1>7. CASE IsZero(i, v) /\ IsZero(i, w)
  <2>1. FieldPack(m, i) = << >> /\ FieldPack(n, i) = << >>
    BY <1>1, <1>7, Zenon
  <2>2. s = t
    BY <1>2, <2>1, Zenon
  <2>3. v = w
    BY <1>3, <1>7, Zenon
  <2> QED BY <2>2, <2>3, Zenon DEF v, w, SameFrom
<1>8. CASE IsZero(i, v) /\ ~IsZero(i, w)
  <2>1. s = << tag >> \o (b \o t)
    BY <1>1, <1>2, <1>5, <1>8
  <2>2. s # << >> /\ s[1] = tag
    BY <1>5, <1>6, <2>1
  <2> QED BY <2>2, Zenon DEF tag, NotTagged
<1>9. CASE ~IsZero(i, v) /\ IsZero(i, w)
  <2>1. t = << tag >> \o (a \o s)
    BY <1>1, <1>2, <1>5, <1>9
  <2>2. t # << >> /\ t[1] = tag
    BY <1>5, <1>6, <2>1
  <2> QED BY <2>2, Zenon DEF tag, NotTagged
<1>10. CASE ~IsZero(i, v) /\ ~IsZero(i, w)
  <2>1. << tag >> \o (a \o s) = << tag >> \o (b \o t)
    BY <1>1, <1>5, <1>10
  <2>2. Len(<< tag >>) = Len(<< tag >>)
    OBVIOUS
  <2>3. a \o s = b \o t
    <3>1. PICK x \in Seq(Byte), y \in Seq(Byte), z \in Seq(Byte) :
             x = << tag >> /\ y = a \o s /\ z = b \o t
      BY <1>5
    <3>2. x \o y = x \o z
      BY <2>1, <3>1
    <3>3. y = z
      BY <3>2, SameParts
    <3> QED BY <3>1, <3>3
  <2> QED BY <2>3, <1>4, Zenon
<1> QED BY <1>7, <1>8, <1>9, <1>10, Zenon

(* The bytes of the fields from i on.                                      *)
RestPack(m, i) == CASE i = 1 -> FieldPack(m, 1) \o (FieldPack(m, 2) \o (FieldPack(m, 3) \o
                                  (FieldPack(m, 4) \o FieldPack(m, 5))))
                    [] i = 2 -> FieldPack(m, 2) \o (FieldPack(m, 3) \o
                                  (FieldPack(m, 4) \o FieldPack(m, 5)))
                    [] i = 3 -> FieldPack(m, 3) \o (FieldPack(m, 4) \o FieldPack(m, 5))
                    [] i = 4 -> FieldPack(m, 4) \o FieldPack(m, 5)
                    [] i = 5 -> FieldPack(m, 5)
                    [] i = 6 -> << >>

\* What follows field i of a message.
LEMMA RestAssociates ==
  ASSUME NEW f1 \in Seq(Byte), NEW f2 \in Seq(Byte), NEW f3 \in Seq(Byte), NEW f4 \in Seq(Byte),
         NEW f5 \in Seq(Byte)
  PROVE  /\ f1 \o f2 \o f3 \o f4 \o f5 = f1 \o (f2 \o (f3 \o (f4 \o f5)))
         /\ f4 \o f5 \in Seq(Byte) /\ f3 \o (f4 \o f5) \in Seq(Byte)
         /\ f2 \o (f3 \o (f4 \o f5)) \in Seq(Byte) /\ f1 \o (f2 \o (f3 \o (f4 \o f5))) \in Seq(Byte)
<1> DEFINE r4 == f4 \o f5
           r3 == f3 \o r4
           r2 == f2 \o r3
           r1 == f1 \o r2
           p2 == f1 \o f2
           p3 == p2 \o f3
<1>1. r4 \in Seq(Byte)
  BY ConcatBegins
<1>2. r3 \in Seq(Byte)
  <2> HIDE DEF r4
  <2> QED BY <1>1, ConcatBegins
<1>3. r2 \in Seq(Byte)
  <2> HIDE DEF r3
  <2> QED BY <1>2, ConcatBegins
<1>4. r1 \in Seq(Byte)
  <2> HIDE DEF r2
  <2> QED BY <1>3, ConcatBegins
<1>5. p2 \in Seq(Byte)
  BY ConcatBegins
<1>6. p3 \in Seq(Byte)
  <2> HIDE DEF p2
  <2> QED BY <1>5, ConcatBegins
<1>7. p3 \o f4 \o f5 = p3 \o r4
  <2> HIDE DEF p3
  <2> QED BY <1>6, BytesAssociate
<1>8. p3 \o r4 = p2 \o r3
  <2> HIDE DEF p2, r4
  <2> QED BY <1>1, <1>5, BytesAssociate
<1>9. p2 \o r3 = r1
  <2> HIDE DEF r3
  <2> QED BY <1>2, BytesAssociate
<1>10. p3 \o f4 \o f5 = r1
  BY <1>7, <1>8, <1>9
<1> QED BY <1>1, <1>2, <1>3, <1>4, <1>10

LEMMA RestSteps ==
  ASSUME NEW m
  PROVE  /\ RestPack(m, 1) = FieldPack(m, 1) \o RestPack(m, 2)
         /\ RestPack(m, 2) = FieldPack(m, 2) \o RestPack(m, 3)
         /\ RestPack(m, 3) = FieldPack(m, 3) \o RestPack(m, 4)
         /\ RestPack(m, 4) = FieldPack(m, 4) \o RestPack(m, 5)
         /\ RestPack(m, 5) = FieldPack(m, 5)
         /\ RestPack(m, 6) = << >>
<1> DEFINE f1 == FieldPack(m, 1)
           f2 == FieldPack(m, 2)
           f3 == FieldPack(m, 3)
           f4 == FieldPack(m, 4)
           f5 == FieldPack(m, 5)
<1>1. RestPack(m, 6) = << >> /\ RestPack(m, 5) = f5
  BY DEF RestPack
<1>2. RestPack(m, 4) = f4 \o f5
  BY DEF RestPack
<1>3. RestPack(m, 3) = f3 \o (f4 \o f5)
  BY DEF RestPack
<1>4. RestPack(m, 2) = f2 \o (f3 \o (f4 \o f5))
  BY DEF RestPack
<1>5. RestPack(m, 1) = f1 \o (f2 \o (f3 \o (f4 \o f5)))
  BY DEF RestPack
<1> QED BY <1>1, <1>2, <1>3, <1>4, <1>5

LEMMA RestIs ==
  ASSUME NEW m \in MessageT
  PROVE  /\ \A i \in 1 .. 6 : RestPack(m, i) \in Seq(Byte)
         /\ \A i \in 1 .. 5 : RestPack(m, i) = FieldPack(m, i) \o RestPack(m, i + 1)
         /\ RestPack(m, 1) = message_pack(m) /\ RestPack(m, 6) = << >>
<1>1. /\ FieldPack(m, 1) \in Seq(Byte) /\ FieldPack(m, 2) \in Seq(Byte)
      /\ FieldPack(m, 3) \in Seq(Byte) /\ FieldPack(m, 4) \in Seq(Byte)
      /\ FieldPack(m, 5) \in Seq(Byte)
  BY FieldPackLen DEF n_fields
<1>2. /\ RestPack(m, 1) \in Seq(Byte) /\ RestPack(m, 2) \in Seq(Byte)
      /\ RestPack(m, 3) \in Seq(Byte) /\ RestPack(m, 4) \in Seq(Byte)
      /\ RestPack(m, 5) \in Seq(Byte)
      /\ message_pack(m) = RestPack(m, 1)
  <2> DEFINE f1 == FieldPack(m, 1)
             f2 == FieldPack(m, 2)
             f3 == FieldPack(m, 3)
             f4 == FieldPack(m, 4)
             f5 == FieldPack(m, 5)
  <2>1. RestPack(m, 5) = f5
    BY RestSteps
  <2>2. RestPack(m, 4) = f4 \o f5
    BY RestSteps
  <2>3. RestPack(m, 3) = f3 \o (f4 \o f5)
    BY <2>2, RestSteps
  <2>4. RestPack(m, 2) = f2 \o (f3 \o (f4 \o f5))
    BY <2>3, RestSteps
  <2>5. RestPack(m, 1) = f1 \o (f2 \o (f3 \o (f4 \o f5)))
    BY <2>4, RestSteps
  <2>6. message_pack(m) = f1 \o f2 \o f3 \o f4 \o f5
    BY DEF message_pack
  <2> HIDE DEF f1, f2, f3, f4, f5
  <2>7. /\ f1 \o f2 \o f3 \o f4 \o f5 = f1 \o (f2 \o (f3 \o (f4 \o f5)))
        /\ f4 \o f5 \in Seq(Byte) /\ f3 \o (f4 \o f5) \in Seq(Byte)
        /\ f2 \o (f3 \o (f4 \o f5)) \in Seq(Byte)
        /\ f1 \o (f2 \o (f3 \o (f4 \o f5))) \in Seq(Byte)
    BY <1>1, RestAssociates DEF f1, f2, f3, f4, f5
  <2> QED BY <1>1, <2>1, <2>2, <2>3, <2>4, <2>5, <2>6, <2>7, Zenon DEF f5
<1>3. RestPack(m, 6) \in Seq(Byte)
  <2>1. << >> \in Seq(Byte)
    OBVIOUS
  <2> QED BY <2>1, RestSteps, Zenon
<1>4. RestPack(m, 5) = FieldPack(m, 5) \o RestPack(m, 6)
  BY <1>1, RestSteps, ConcatEmptySeq
<1>5. ASSUME NEW i \in 1 .. 6 PROVE RestPack(m, i) \in Seq(Byte)
  <2>1. i = 1 \/ i = 2 \/ i = 3 \/ i = 4 \/ i = 5 \/ i = 6
    OBVIOUS
  <2> QED BY <1>2, <1>3, <2>1, Zenon
<1>6. ASSUME NEW i \in 1 .. 5 PROVE RestPack(m, i) = FieldPack(m, i) \o RestPack(m, i + 1)
  <2>1. i = 1 \/ i = 2 \/ i = 3 \/ i = 4 \/ i = 5
    OBVIOUS
  <2>2. 1 + 1 = 2 /\ 2 + 1 = 3 /\ 3 + 1 = 4 /\ 4 + 1 = 5 /\ 5 + 1 = 6
    OBVIOUS
  <2> QED BY <1>4, RestSteps, <2>1, <2>2, Zenon
<1> QED BY <1>2, <1>5, <1>6, RestSteps, Zenon

(* Every field that follows has a larger tag.                              *)
LEMMA RestBegins ==
  ASSUME NEW m \in MessageT, NEW i \in 1 .. 6, RestPack(m, i) # << >>
  PROVE  \E j \in i .. 5 : RestPack(m, i)[1] = TagByte(j)
<1> DEFINE f(j) == FieldPack(m, j)
           r(j) == RestPack(m, j)
<1>1. ASSUME NEW j \in 1 .. 5
      PROVE  r(j) = r(j + 1) \/ r(j)[1] = TagByte(j)
  <2>0. j + 1 \in 1 .. 6
    OBVIOUS
  <2>1. r(j) = f(j) \o r(j + 1) /\ r(j + 1) \in Seq(Byte)
    BY <2>0, RestIs, Zenon
  <2>2. CASE IsZero(j, ValueOf(m, j))
    <3>1. f(j) = << >>
      BY <2>2, FieldPackIs DEF n_fields
    <3> HIDE DEF f, r
    <3> QED BY <2>1, <3>1, ConcatEmptySeq
  <2>3. CASE ~IsZero(j, ValueOf(m, j))
    <3> DEFINE b == TagByte(j)
               c == Code(j, ValueOf(m, j))
    <3>1. f(j) = << b >> \o c /\ b \in Byte /\ c \in Seq(Byte)
      BY <2>3, FieldPackIs DEF n_fields
    <3> HIDE DEF f, r, b, c
    <3>2. f(j) \in Seq(Byte) /\ Len(f(j)) > 0 /\ f(j)[1] = b
      BY <3>1, ByteBefore, LenProperties
    <3>3. 1 \in 1 .. Len(f(j))
      BY <3>2, LenProperties
    <3>4. r(j)[1] = b
      BY <2>1, <3>2, <3>3, ConcatBegins
    <3> QED BY <3>4 DEF b
  <2> QED BY <2>2, <2>3
<1>2. r(6) = << >>
  BY RestIs
<1> HIDE DEF r
<1>3. r(5) # << >> => r(5)[1] = TagByte(5)
  BY <1>1, <1>2
<1>4. r(4) # << >> => r(4)[1] = TagByte(4) \/ r(4)[1] = TagByte(5)
  BY <1>1, <1>3
<1>5. r(3) # << >> => r(3)[1] = TagByte(3) \/ r(3)[1] = TagByte(4) \/ r(3)[1] = TagByte(5)
  BY <1>1, <1>4
<1>6. r(2) # << >> => \E j \in 2 .. 5 : r(2)[1] = TagByte(j)
  BY <1>1, <1>5
<1>7. r(1) # << >> => \E j \in 1 .. 5 : r(1)[1] = TagByte(j)
  BY <1>1, <1>6
<1>8. i = 1 \/ i = 2 \/ i = 3 \/ i = 4 \/ i = 5 \/ i = 6
  OBVIOUS
<1> QED BY <1>2, <1>3, <1>4, <1>5, <1>6, <1>7, <1>8 DEF r

\* Messages whose rests are the same have the same fields from there on.
LEMMA RestsApart ==
  ASSUME NEW m \in MessageT, NEW n \in MessageT, NEW i \in 1 .. 5,
         RestPack(m, i) = RestPack(n, i)
  PROVE  ValueOf(m, i) = ValueOf(n, i) /\ RestPack(m, i + 1) = RestPack(n, i + 1)
<1> DEFINE s == RestPack(m, i + 1)
           t == RestPack(n, i + 1)
<1>1. /\ s \in Seq(Byte) /\ t \in Seq(Byte)
      /\ RestPack(m, i) = FieldPack(m, i) \o s /\ RestPack(n, i) = FieldPack(n, i) \o t
  <2>1. i + 1 \in 1 .. 6
    OBVIOUS
  <2> QED BY <2>1, RestIs, Zenon
<1>2. \A j \in i + 1 .. 5 : TagByte(j) # TagByte(i)
  BY DEF TagByte
<1>3. i + 1 \in 1 .. 6
  OBVIOUS
<1>4. NotTagged(s, i)
  BY <1>2, <1>3, RestBegins, Zenon DEF NotTagged
<1>5. NotTagged(t, i)
  BY <1>2, <1>3, RestBegins, Zenon DEF NotTagged
<1>6. i \in 1 .. n_fields
  BY DEF n_fields
<1> HIDE DEF s, t
<1>7. FieldPack(m, i) \o s = FieldPack(n, i) \o t
  BY <1>1
<1>8. SameFrom(m, n, i, s, t)
  BY <1>1, <1>4, <1>5, <1>6, <1>7, FieldsApart, Zenon
<1> QED BY <1>8, Zenon DEF SameFrom, s, t

(* No two messages have the same bytes: what a whole buffer holds is the   *)
(* message that was packed into it.                                        *)
THEOREM PackTellsMessages ==
  ASSUME NEW m \in MessageT, NEW n \in MessageT, message_pack(m) = message_pack(n)
  PROVE  m = n
<1>1. RestPack(m, 1) = RestPack(n, 1)
  BY RestIs
<1>2. ValueOf(m, 1) = ValueOf(n, 1) /\ RestPack(m, 2) = RestPack(n, 2)
  BY <1>1, RestsApart
<1>3. ValueOf(m, 2) = ValueOf(n, 2) /\ RestPack(m, 3) = RestPack(n, 3)
  BY <1>2, RestsApart
<1>4. ValueOf(m, 3) = ValueOf(n, 3) /\ RestPack(m, 4) = RestPack(n, 4)
  BY <1>3, RestsApart
<1>5. ValueOf(m, 4) = ValueOf(n, 4) /\ RestPack(m, 5) = RestPack(n, 5)
  BY <1>4, RestsApart
<1>6. ValueOf(m, 5) = ValueOf(n, 5)
  BY <1>5, RestsApart
<1>7. 1 \in 1 .. n_fields
  BY DEF n_fields
<1>8. /\ m.opcode = n.opcode /\ m.c_type = n.c_type /\ m.data_size = n.data_size
      /\ m.data = n.data /\ m.key = n.key
  BY <1>2, <1>3, <1>4, <1>5, <1>6, <1>7, FieldIs
<1> QED BY <1>8 DEF MessageT

-----------------------------------------------------------------------------
(* Framing: bytes and buffers.                                             *)

\* The four bytes of a length.
LEMMA IntBytesAre ==
  ASSUME NEW n \in Nat
  PROVE  int_bytes(n) \in Seq(Byte) /\ Len(int_bytes(n)) = 4
<1>1. /\ n % 256 \in Byte /\ (n \div 256) % 256 \in Byte /\ (n \div 65536) % 256 \in Byte
      /\ (n \div 16777216) % 256 \in Byte
  BY SMT DEF Byte
<1> QED BY <1>1 DEF int_bytes

(* The length that is read is the one that was written.                    *)
LEMMA IntOfIntBytes ==
  ASSUME NEW n \in Nat, n \in Int32
  PROVE  int_of(int_bytes(n)) = n
<1> DEFINE b1 == n % 256
           b2 == (n \div 256) % 256
           b3 == (n \div 65536) % 256
           b4 == (n \div 16777216) % 256
<1>1. n < 2147483648
  BY DEF Int32, Half
<1>2. b4 < 128 /\ b1 + 256 * b2 + 65536 * b3 + 16777216 * b4 = n
  BY <1>1, SMT
<1>3. int_bytes(n) = << b1, b2, b3, b4 >>
  BY DEF int_bytes
<1> HIDE DEF b1, b2, b3, b4
<1>4. int_of(<< b1, b2, b3, b4 >>) =
         b1 + 256 * b2 + 65536 * b3 + 16777216 * (IF b4 < 128 THEN b4 ELSE b4 - 256)
  BY DEF int_of
<1> QED BY <1>2, <1>3, <1>4

\* A byte that was read or left 0.
LEMMA ByteOrZero ==
  ASSUME NEW b \in Seq(Byte), NEW i \in 1 .. 4
  PROVE  (IF i <= Len(b) THEN b[i] ELSE 0) \in 0 .. 255
<1>1. CASE i <= Len(b)
  <2>1. i \in 1 .. Len(b)
    BY <1>1, LenProperties
  <2> DEFINE x == b[i]
  <2>2. x \in Int /\ 0 <= x /\ x < 256
    BY <2>1, ByteIs
  <2> HIDE DEF x
  <2>3. x \in 0 .. 255
    BY <2>2
  <2> QED BY <1>1, <2>3 DEF x
<1>2. CASE ~(i <= Len(b))
  BY <1>2
<1> QED BY <1>1, <1>2

\* Any bytes are read as an int.
LEMMA IntOfIs ==
  ASSUME NEW b \in Seq(Byte)
  PROVE  int_of(b) \in Int32
<1> DEFINE a1 == IF 1 <= Len(b) THEN b[1] ELSE 0
           a2 == IF 2 <= Len(b) THEN b[2] ELSE 0
           a3 == IF 3 <= Len(b) THEN b[3] ELSE 0
           a4 == IF 4 <= Len(b) THEN b[4] ELSE 0
<1>1. a1 \in 0 .. 255 /\ a2 \in 0 .. 255 /\ a3 \in 0 .. 255 /\ a4 \in 0 .. 255
  <2>1. 1 \in 1 .. 4 /\ 2 \in 1 .. 4 /\ 3 \in 1 .. 4 /\ 4 \in 1 .. 4
    OBVIOUS
  <2> QED BY <2>1, ByteOrZero, Zenon
<1>2. int_of(b) = a1 + 256 * a2 + 65536 * a3 + 16777216 * (IF a4 < 128 THEN a4 ELSE a4 - 256)
  BY DEF int_of
<1> HIDE DEF a1, a2, a3, a4
<1> QED BY <1>1, <1>2 DEF Int32, Half

\* Min of FiniteSetsExt, on two numbers.
LEMMA MinOfTwo ==
  ASSUME NEW x \in Nat, NEW y \in Nat
  PROVE  Min({x, y}) = IF x <= y THEN x ELSE y
<1> DEFINE least == IF x <= y THEN x ELSE y
<1>1. least \in {x, y} /\ \A z \in {x, y} : least <= z
  OBVIOUS
<1>2. \A z \in {x, y} : (\A w \in {x, y} : z <= w) => z = least
  OBVIOUS
<1> QED BY <1>1, <1>2 DEF Min

(* A read returns some of what has arrived, all that it can if it comes    *)
(* after the writes.                                                       *)
LEMMA ArrivedIs ==
  ASSUME NEW b \in Seq(Byte), NEW count \in Nat \ {0}, NEW n \in Arrived(b, count)
  PROVE  /\ n \in 1 .. Len(b) /\ n <= count /\ b # << >>
         /\ ~pieces => n = IF Len(b) <= count THEN Len(b) ELSE count
<1>1. Len(b) \in Nat /\ b # << >>
  BY LenProperties DEF Arrived
<1>2. Len(b) > 0
  BY <1>1, EmptySeq
<1>3. Min({Len(b), count}) = IF Len(b) <= count THEN Len(b) ELSE count
  BY <1>1, MinOfTwo
<1> QED BY <1>1, <1>2, <1>3 DEF Arrived

(* A read of exactly what a sequence begins with.                          *)
LEMMA FrontAndRest ==
  ASSUME NEW a \in Seq(Byte), NEW b \in Seq(Byte)
  PROVE  /\ SubSeq(a \o b, 1, Len(a)) = a
         /\ SubSeq(a \o b, Len(a) + 1, Len(a \o b)) = b
<1> DEFINE s == a \o b
           front == SubSeq(s, 1, Len(a))
           rest == SubSeq(s, Len(a) + 1, Len(s))
<1>1. /\ s \in Seq(Byte) /\ Len(a) \in Nat /\ Len(b) \in Nat /\ Len(s) = Len(a) + Len(b)
      /\ \A i \in 1 .. Len(a) : s[i] = a[i]
      /\ \A i \in 1 .. Len(b) : s[Len(a) + i] = b[i]
  BY ConcatBegins
<1> HIDE DEF s
<1>2. \A i \in 1 .. Len(s) : s[i] \in Byte
  BY <1>1, ElementOfSeq
<1>3. front = a
  <2>1. \A i \in 1 .. Len(a) : s[i] \in Byte
    BY <1>1, <1>2
  <2>2. /\ front \in Seq(Byte) /\ Len(front) = Len(a)
        /\ \A i \in 1 .. Len(a) - 1 + 1 : front[i] = s[1 + i - 1]
    BY <1>1, <2>1, SubSeqProperties
  <2> HIDE DEF front
  <2>3. \A i \in 1 .. Len(front) : front[i] = a[i]
    BY <1>1, <2>2
  <2> QED BY <2>2, <2>3, SeqEqual
<1>4. rest = b
  <2>1. \A i \in Len(a) + 1 .. Len(s) : s[i] \in Byte
    BY <1>1, <1>2
  <2>2. /\ rest \in Seq(Byte) /\ Len(rest) = Len(b)
        /\ \A i \in 1 .. Len(s) - (Len(a) + 1) + 1 : rest[i] = s[(Len(a) + 1) + i - 1]
    BY <1>1, <2>1, SubSeqProperties
  <2> HIDE DEF rest
  <2>3. \A i \in 1 .. Len(rest) : rest[i] = b[i]
    BY <1>1, <2>2
  <2> QED BY <2>2, <2>3, SeqEqual
<1> QED BY <1>3, <1>4 DEF s

\* A read splits a stream into streams.
LEMMA BytesTaken ==
  ASSUME NEW b \in Seq(Byte), NEW n \in 1 .. Len(b)
  PROVE  /\ SubSeq(b, 1, n) \in Seq(Byte) /\ Len(SubSeq(b, 1, n)) = n
         /\ SubSeq(b, n + 1, Len(b)) \in Seq(Byte)
<1>1. Len(b) \in Nat
  BY LenProperties
<1>2. \A i \in 1 .. n : i \in 1 .. Len(b)
  BY <1>1
<1>3. \A i \in n + 1 .. Len(b) : i \in 1 .. Len(b)
  BY <1>1
<1>4. \A i \in 1 .. Len(b) : b[i] \in Byte
  BY ElementOfSeq
<1> QED BY <1>1, <1>2, <1>3, <1>4, SubSeqProperties

\* A message is packed into bytes.
LEMMA PackedIs ==
  ASSUME NEW m \in MessageT
  PROVE  message_pack(m) \in Seq(Byte) /\ Len(message_pack(m)) \in Nat
BY PackedSizeIsLength, LenProperties

(* The tags of the results tell them apart.                                *)
LEMMA ResultsApart ==
  ASSUME NEW m, NEW n
  PROVE  /\ Sent(m) # Null /\ Sent(m) # Bad /\ Sent(m) # Other
         /\ Sent(m) = Sent(n) => m = n
<1>1. Sent(m)[1] = "message" /\ Null[1] = "NULL" /\ Bad[1] = "OP_BAD" /\ Other[1] = "other"
  BY DEF Sent, Null, Bad, Other
<1>2. Sent(m)[2] = m /\ Sent(n)[2] = n
  BY DEF Sent
<1> QED BY <1>1, <1>2

\* Whatever is unpacked is a result.
LEMMA UnpackedIs ==
  ASSUME NEW b, NEW n
  PROVE  Unpacked(b, n) \subseteq Results
BY DEF Unpacked, Results

(* A buffer with the bytes of a message is taken for that message.         *)
LEMMA UnpackedPacked ==
  ASSUME NEW m \in Requests \cup Replies, Len(message_pack(m)) # 0
  PROVE  Unpacked(message_pack(m), Len(message_pack(m))) = {Sent(m)}
<1> DEFINE p == message_pack(m)
           whole == {n \in Requests \cup Replies : message_pack(n) = p}
<1>1. Requests \cup Replies \subseteq MessageT
  BY FramingAssumption
<1>2. ASSUME NEW n \in whole PROVE n = m
  BY <1>1, <1>2, PackTellsMessages
<1>3. m \in whole
  OBVIOUS
<1>4. whole = {m}
  BY <1>2, <1>3
<1>5. Unpacked(p, Len(p)) = {Sent(n) : n \in whole}
  BY <1>3 DEF Unpacked
<1> HIDE DEF p, whole
<1> QED BY <1>4, <1>5 DEF p

-----------------------------------------------------------------------------
(* The types of Framing.                                                   *)

(* What is asked for and not answered yet.                                 *)
Calling == client \in {"length", "message", "reply"} => Len(got) < Len(asked)
\* The types and what they rest on.
FramingIInv == TypeOK /\ Calling

\* Who calls has asked for something.
LEMMA RequestIs ==
  ASSUME TypeOK, Calling, client \in {"length", "message"}
  PROVE  Last(asked) \in Requests /\ Last(asked) \in MessageT
<1>1. asked \in Seq(Requests) /\ Len(asked) \in Nat /\ Len(got) \in Nat
  BY LenProperties DEF TypeOK
<1>2. Len(got) < Len(asked)
  BY DEF Calling
<1>3. Len(asked) \in 1 .. Len(asked)
  BY <1>1, <1>2
<1>4. Last(asked) \in Requests
  BY <1>1, <1>3, ElementOfSeq DEF Last
<1> QED BY <1>4, FramingAssumption

\* The steps keep the types.
LEMMA FramingStarts ==
  ASSUME Init
  PROVE  FramingIInv
<1>1. Len(asked) = 0 /\ Len(got) = 0 /\ asked \in Seq(Requests) /\ got \in Seq(Results)
  BY DEF Init
<1>2. 0 \in Int32
  BY DEF Int32, Half
<1>3. /\ upstream \in Seq(Byte) /\ downstream \in Seq(Byte) /\ handed \in Seq(Results)
      /\ answered \in Seq(Replies)
  BY DEF Init
<1>4. Len(asked) <= MaxRequests /\ Len(got) <= Len(asked)
  BY <1>1, FramingAssumption
<1>5. /\ client = "idle" /\ server = "length" /\ size_of_message \in Int32 /\ short \in BOOLEAN
      /\ pieces \in BOOLEAN
  BY <1>2 DEF Init
<1>6. client \in {"idle", "length", "message", "reply", "gone"}
      /\ server \in {"length", "message", "reply", "closed", "crashed"}
  BY <1>5
<1>7. TypeOK
  BY <1>1, <1>3, <1>4, <1>5, <1>6, Zenon DEF TypeOK
<1>8. Calling
  BY <1>5 DEF Calling
<1> QED BY <1>7, <1>8 DEF FramingIInv

LEMMA CallKeepsTypes ==
  ASSUME FramingIInv, Call
  PROVE  FramingIInv'
<1>1. PICK m \in Requests : asked' = Append(asked, m)
  BY DEF Call
<1>2. /\ asked \in Seq(Requests) /\ Len(asked) \in Nat /\ Len(got) \in Nat
      /\ Len(got) <= Len(asked) /\ Len(asked) < MaxRequests
  BY LenProperties DEF FramingIInv, TypeOK, Call
<1>3. asked' \in Seq(Requests) /\ Len(asked') = Len(asked) + 1
  BY <1>1, <1>2, AppendProperties
<1>4. got' = got /\ client' = "length"
  BY DEF Call
<1>5. Len(asked') <= MaxRequests /\ Len(got') <= Len(asked') /\ Len(got') < Len(asked')
  BY <1>2, <1>3, <1>4, FramingAssumption
<1>6. TypeOK'
  BY <1>3, <1>4, <1>5 DEF FramingIInv, TypeOK, Call
<1> QED BY <1>5, <1>6 DEF FramingIInv, Calling

LEMMA WriteKeepsTypes ==
  ASSUME FramingIInv, NEW from \in {"length", "message"}, NEW to \in {"message", "reply"},
         NEW bytes \in Seq(Byte), Write(from, bytes, to)
  PROVE  FramingIInv'
<1>1. asked' = asked /\ got' = got /\ client \in {"length", "message"}
  BY DEF Write
<1>2. upstream' \in Seq(Byte)
  BY ConcatBegins DEF FramingIInv, TypeOK, Write
<1>3. client' \in {"message", "reply", "gone"}
  BY DEF Write
<1>4. TypeOK'
  BY <1>1, <1>2, <1>3 DEF FramingIInv, TypeOK, Write
<1> QED BY <1>1, <1>3, <1>4 DEF FramingIInv, Calling

LEMMA WritesKeepTypes ==
  ASSUME FramingIInv, WriteLength \/ WriteMessage
  PROVE  FramingIInv'
<1>1. client \in {"length", "message"}
  BY DEF WriteLength, WriteMessage, Write
<1>2. Last(asked) \in MessageT
  BY <1>1, RequestIs DEF FramingIInv
<1>3. /\ message_pack(Last(asked)) \in Seq(Byte)
      /\ int_bytes(Len(message_pack(Last(asked)))) \in Seq(Byte)
  BY <1>2, PackedIs, IntBytesAre
<1>4. CASE WriteLength
  BY <1>3, <1>4, WriteKeepsTypes DEF WriteLength
<1>5. CASE WriteMessage
  BY <1>3, <1>5, WriteKeepsTypes DEF WriteMessage
<1> QED BY <1>4, <1>5

(* A reply that was read, whatever it was taken for.                       *)
LEMMA ReplyKeepsTypes ==
  ASSUME FramingIInv, client = "reply", NEW result \in Results, got' = Append(got, result),
         client' \in {"gone", "idle"}, downstream' \in Seq(Byte),
         UNCHANGED <<asked, upstream, server, size_of_message, handed, answered, short, pieces>>
  PROVE  FramingIInv'
<1>1. /\ got \in Seq(Results) /\ Len(asked) \in Nat /\ Len(got) \in Nat /\ Len(got) < Len(asked)
  BY LenProperties DEF FramingIInv, TypeOK, Calling
<1>2. got' \in Seq(Results) /\ Len(got') = Len(got) + 1
  BY <1>1, AppendProperties
<1>3. Len(got') <= Len(asked')
  BY <1>1, <1>2
<1>4. TypeOK'
  BY <1>2, <1>3 DEF FramingIInv, TypeOK
<1> QED BY <1>4 DEF FramingIInv, Calling

LEMMA ReadReplyKeepsTypes ==
  ASSUME FramingIInv, ReadReply
  PROVE  FramingIInv'
<1>1. PICK n \in Arrived(downstream, MaxMsg) :
         /\ \E result \in Unpacked(SubSeq(downstream, 1, n), n) :
               /\ got' = Append(got, result)
               /\ client' = IF result = Null THEN "gone" ELSE "idle"
         /\ downstream' = SubSeq(downstream, n + 1, Len(downstream))
  BY DEF ReadReply
<1>2. PICK result \in Unpacked(SubSeq(downstream, 1, n), n) :
         /\ got' = Append(got, result)
         /\ client' = IF result = Null THEN "gone" ELSE "idle"
  BY <1>1
<1>3. result \in Results
  BY UnpackedIs
<1>4. downstream \in Seq(Byte)
  BY DEF FramingIInv, TypeOK
<1>5. n \in 1 .. Len(downstream)
  BY <1>4, ArrivedIs, FramingAssumption
<1>6. downstream' \in Seq(Byte)
  BY <1>1, <1>4, <1>5, BytesTaken
<1> QED BY <1>2, <1>3, <1>6, ReplyKeepsTypes DEF ReadReply

LEMMA BadIs == Bad \in Results
BY DEF Results

LEMMA EndKeepsTypes ==
  ASSUME FramingIInv, ReadEnd \/ Leave
  PROVE  FramingIInv'
<1>1. CASE ReadEnd /\ client' = "gone"
  <2>1. UNCHANGED <<asked, got, upstream, downstream, server, size_of_message, handed, answered,
                    short, pieces>>
    BY <1>1 DEF ReadEnd
  <2> QED BY <1>1, <2>1 DEF FramingIInv, TypeOK, Calling
<1>2. CASE ReadEnd /\ client' # "gone"
  <2>1. downstream \in Seq(Byte)
    BY DEF FramingIInv, TypeOK
  <2>2. /\ client = "reply" /\ got' = Append(got, Bad) /\ client' = "idle"
        /\ downstream' \in Seq(Byte)
        /\ UNCHANGED <<asked, upstream, server, size_of_message, handed, answered, short, pieces>>
    BY <1>2, <2>1 DEF ReadEnd
  <2> QED BY <2>2, BadIs, ReplyKeepsTypes
<1>3. CASE Leave
  BY <1>3 DEF Leave, FramingIInv, TypeOK, Calling
<1> QED BY <1>1, <1>2, <1>3

(* The steps of the server leave the client's part alone.                  *)
LEMMA ServerKeepsTypes ==
  ASSUME FramingIInv, UNCHANGED <<client, asked, got, pieces>>,
         upstream' \in Seq(Byte), downstream' \in Seq(Byte),
         server' \in {"length", "message", "reply", "closed", "crashed"},
         size_of_message' \in Int32, handed' \in Seq(Results), answered' \in Seq(Replies),
         short' \in BOOLEAN
  PROVE  FramingIInv'
BY DEF FramingIInv, TypeOK, Calling

LEMMA CloseKeepsTypes ==
  ASSUME FramingIInv, UNCHANGED <<client, asked, got, pieces>>, Close
  PROVE  FramingIInv'
BY ServerKeepsTypes DEF FramingIInv, TypeOK, Close

LEMMA ReceiveLengthKeepsTypes ==
  ASSUME FramingIInv, ReceiveLength
  PROVE  FramingIInv'
<1>1. CASE Close
  BY <1>1, CloseKeepsTypes DEF ReceiveLength
<1>2. CASE ~Close
  <2>1. PICK n \in Arrived(upstream, 4) :
           /\ size_of_message' = int_of(SubSeq(upstream, 1, n))
           /\ upstream' = SubSeq(upstream, n + 1, Len(upstream))
           /\ short' = (short \/ n < 4)
    BY <1>2 DEF ReceiveLength
  <2>2. server' = "message" /\ UNCHANGED <<client, asked, got, pieces, downstream, handed, answered>>
    BY <1>2 DEF ReceiveLength
  <2>3. upstream \in Seq(Byte) /\ short \in BOOLEAN
    BY DEF FramingIInv, TypeOK
  <2>4. n \in 1 .. Len(upstream)
    BY <2>3, ArrivedIs
  <2>5. upstream' \in Seq(Byte) /\ SubSeq(upstream, 1, n) \in Seq(Byte)
    BY <2>1, <2>3, <2>4, BytesTaken
  <2>6. size_of_message' \in Int32
    BY <2>1, <2>5, IntOfIs
  <2>7. short' \in BOOLEAN
    BY <2>1
  <2> QED BY <2>2, <2>5, <2>6, <2>7, ServerKeepsTypes DEF FramingIInv, TypeOK
<1> QED BY <1>1, <1>2

LEMMA TakeKeepsTypes ==
  ASSUME FramingIInv, UNCHANGED <<client, asked, got, pieces>>, upstream' \in Seq(Byte),
         NEW bytes, NEW n, Take(bytes, n)
  PROVE  FramingIInv'
<1>1. PICK result \in Unpacked(bytes, n) :
         /\ server' = IF result = Null THEN "crashed"
                      ELSE IF result = Bad THEN "closed" ELSE "reply"
         /\ handed' = IF result \in {Null, Bad} THEN handed ELSE Append(handed, result)
  BY DEF Take
<1>2. result \in Results /\ handed \in Seq(Results)
  BY UnpackedIs DEF FramingIInv, TypeOK
<1>3. Append(handed, result) \in Seq(Results)
  BY <1>2, AppendProperties
<1>4. handed' \in Seq(Results)
  BY <1>1, <1>2, <1>3
<1>5. server' \in {"length", "message", "reply", "closed", "crashed"}
  BY <1>1
<1>6. short' \in BOOLEAN
  BY DEF Take
<1> QED BY <1>4, <1>5, <1>6, ServerKeepsTypes DEF FramingIInv, TypeOK, Take

LEMMA ReceiveMessageKeepsTypes ==
  ASSUME FramingIInv, ReceiveMessage
  PROVE  FramingIInv'
<1>0. upstream \in Seq(Byte) /\ UNCHANGED <<client, asked, got, pieces>>
  BY DEF FramingIInv, TypeOK, ReceiveMessage
<1>1. CASE Close
  BY <1>0, <1>1, CloseKeepsTypes
<1>2. CASE Take(<< >>, 0) /\ UNCHANGED upstream
  BY <1>0, <1>2, TakeKeepsTypes
<1>3. CASE Take(<< >>, size_of_message) /\ UNCHANGED upstream
  BY <1>0, <1>3, TakeKeepsTypes
<1>4. CASE /\ size_of_message > 0
           /\ \E n \in Arrived(upstream, size_of_message) :
                /\ Take(SubSeq(upstream, 1, n), size_of_message)
                /\ upstream' = SubSeq(upstream, n + 1, Len(upstream))
  <2>1. PICK n \in Arrived(upstream, size_of_message) :
           /\ Take(SubSeq(upstream, 1, n), size_of_message)
           /\ upstream' = SubSeq(upstream, n + 1, Len(upstream))
    BY <1>4
  <2>2. size_of_message \in Nat \ {0}
    BY <1>4 DEF FramingIInv, TypeOK, Int32
  <2>3. n \in 1 .. Len(upstream)
    BY <1>0, <2>2, ArrivedIs
  <2>4. upstream' \in Seq(Byte)
    BY <1>0, <2>1, <2>3, BytesTaken
  <2> QED BY <1>0, <2>1, <2>4, TakeKeepsTypes
<1>5. CASE /\ server' = "crashed"
           /\ UNCHANGED <<upstream, downstream, size_of_message, handed, answered, short>>
  BY <1>0, <1>5, ServerKeepsTypes DEF FramingIInv, TypeOK
<1> QED BY <1>1, <1>2, <1>3, <1>4, <1>5 DEF ReceiveMessage

LEMMA SendReplyKeepsTypes ==
  ASSUME FramingIInv, SendReply
  PROVE  FramingIInv'
<1>1. CASE Close
  BY <1>1, CloseKeepsTypes DEF SendReply
<1>2. CASE ~Close
  <2>1. PICK m \in Replies :
           /\ answered' = Append(answered, m)
           /\ downstream' = IF ClientGone THEN downstream ELSE downstream \o message_pack(m)
    BY <1>2 DEF SendReply
  <2>2. /\ server' = "length"
        /\ UNCHANGED <<client, asked, got, pieces, upstream, size_of_message, handed, short>>
    BY <1>2 DEF SendReply
  <2>3. answered \in Seq(Replies) /\ downstream \in Seq(Byte)
    BY DEF FramingIInv, TypeOK
  <2>4. answered' \in Seq(Replies)
    BY <2>1, <2>3, AppendProperties
  <2>5. message_pack(m) \in Seq(Byte)
    BY PackedIs, FramingAssumption
  <2>6. downstream' \in Seq(Byte)
    BY <2>1, <2>3, <2>5, ConcatBegins
  <2> QED BY <2>2, <2>4, <2>6, ServerKeepsTypes DEF FramingIInv, TypeOK
<1> QED BY <1>1, <1>2

LEMMA FramingStepKeepsTypes ==
  ASSUME FramingIInv, [Next]_vars
  PROVE  FramingIInv'
<1>1. CASE UNCHANGED vars
  BY <1>1 DEF vars, FramingIInv, TypeOK, Calling
<1> QED BY <1>1, CallKeepsTypes, WritesKeepTypes, ReadReplyKeepsTypes, EndKeepsTypes,
           ReceiveLengthKeepsTypes, ReceiveMessageKeepsTypes, SendReplyKeepsTypes DEF Next

LEMMA FramingTypes == Spec => []FramingIInv
<1>1. Init => FramingIInv
  BY FramingStarts
<1>2. FramingIInv /\ [Next]_vars => FramingIInv'
  BY FramingStepKeepsTypes
<1> QED BY <1>1, <1>2, PTL DEF Spec

-----------------------------------------------------------------------------
(* Requests that are read whole.                                           *)

\* The int that is sent before a request counts its bytes.
FitsInInt == \A m \in Requests : Len(message_pack(m)) \in Int32

\* The bytes of request i of ms in the stream: all requests are whole but the last,
\* of which part says what was written.
LengthOf(ms, part, i) ==
  IF i = Len(ms) /\ part = "none" THEN << >> ELSE int_bytes(Len(message_pack(ms[i])))
BodyOf(ms, part, i) ==
  IF i = Len(ms) /\ part # "whole" THEN << >> ELSE message_pack(ms[i])

\* What was written of the last request.
Parts == {"none", "length", "whole"}

\* rest[i] is what follows request i in all that was written.
Chain(ms, part, rest) ==
  /\ rest \in [0 .. Len(ms) -> Seq(Byte)] /\ rest[Len(ms)] = << >>
  /\ \A i \in 1 .. Len(ms) :
        rest[i - 1] = LengthOf(ms, part, i) \o (BodyOf(ms, part, i) \o rest[i])

\* Of all that was written, the server has read h requests, or the length of
\* one more, and the stream is what follows.
Position(ms, part, rest, stream, srv, h, size) ==
  /\ h <= Len(ms)
  /\ srv # "message" => stream = rest[h] /\ (h = Len(ms) => part = "whole")
  /\ srv = "message" =>
       /\ h < Len(ms) /\ (h + 1 = Len(ms) => part # "none")
       /\ size = Len(message_pack(ms[h + 1]))
       /\ stream = BodyOf(ms, part, h + 1) \o rest[h + 1]

\* The place of the client tells what it has written of the last request.
PartIs(part, at) ==
  /\ part \in Parts
  /\ at = "length" => part = "none"
  /\ at = "message" => part = "length"
  /\ at \in {"idle", "reply"} => part = "whole"

\* What was handed to invoke are the first requests.
HandedTheirs(ms, hs) ==
  /\ Len(hs) <= Len(ms) /\ \A i \in 1 .. Len(hs) : hs[i] = Sent(ms[i])

\* The stream is what the server has not read of what the client has written.
InStep ==
  /\ HandedTheirs(asked, handed)
  /\ ~ServerGone =>
       \E part \in Parts : \E rest \in [0 .. Len(asked) -> Seq(Byte)] :
          /\ PartIs(part, client) /\ Chain(asked, part, rest)
          /\ Position(asked, part, rest, upstream, server, Len(handed), size_of_message)

\* What whole reads keep.
WholeReads == ~short => InStep

\* Both are bytes.
LEMMA PiecesAre ==
  ASSUME NEW ms \in Seq(MessageT), NEW part, NEW i \in 1 .. Len(ms)
  PROVE  LengthOf(ms, part, i) \in Seq(Byte) /\ BodyOf(ms, part, i) \in Seq(Byte)
<1>1. ms[i] \in MessageT
  BY ElementOfSeq
<1>2. message_pack(ms[i]) \in Seq(Byte) /\ int_bytes(Len(message_pack(ms[i]))) \in Seq(Byte)
  BY <1>1, PackedIs, IntBytesAre
<1>3. << >> \in Seq(Byte)
  OBVIOUS
<1> QED BY <1>2, <1>3 DEF LengthOf, BodyOf

\* A call adds a request of which nothing is written.
LEMMA CallChain ==
  ASSUME NEW ms \in Seq(MessageT), NEW m \in MessageT, NEW rest, Chain(ms, "whole", rest)
  PROVE  \E rest2 \in [0 .. Len(ms) + 1 -> Seq(Byte)] :
            /\ Chain(Append(ms, m), "none", rest2)
            /\ \A i \in 0 .. Len(ms) : rest2[i] = rest[i]
            /\ \A i \in 1 .. Len(ms) :
                  BodyOf(Append(ms, m), "none", i) = BodyOf(ms, "whole", i)
<1> DEFINE n == Len(ms)
           more == Append(ms, m)
           rest2 == [i \in 0 .. n + 1 |-> IF i <= n THEN rest[i] ELSE << >>]
<1>1. n \in Nat /\ Len(more) = n + 1 /\ \A i \in 1 .. n : more[i] = ms[i]
  BY LenProperties, AppendProperties
<1>2. rest \in [0 .. n -> Seq(Byte)] /\ rest[n] = << >>
  BY DEF Chain
<1>3. << >> \in Seq(Byte)
  OBVIOUS
<1>4. \A i \in 0 .. n + 1 : (IF i <= n THEN rest[i] ELSE << >>) \in Seq(Byte)
  <2>1. \A i \in 0 .. n + 1 : i <= n => i \in 0 .. n
    BY <1>1
  <2> QED BY <1>2, <1>3, <2>1
<1>5. rest2 \in [0 .. n + 1 -> Seq(Byte)]
  BY <1>4
<1>6. rest2[n + 1] = << >>
  BY <1>1
<1>7. \A i \in 0 .. n : rest2[i] = rest[i]
  BY <1>1
<1>8. ASSUME NEW i \in 1 .. n
      PROVE  /\ LengthOf(more, "none", i) = LengthOf(ms, "whole", i)
             /\ BodyOf(more, "none", i) = BodyOf(ms, "whole", i)
  <2>1. i # n + 1 /\ more[i] = ms[i]
    BY <1>1
  <2> QED BY <1>1, <2>1 DEF LengthOf, BodyOf
<1>9. ASSUME NEW i \in 1 .. n + 1
      PROVE  rest2[i - 1] = LengthOf(more, "none", i) \o (BodyOf(more, "none", i) \o rest2[i])
  <2>1. CASE i = n + 1
    <3>1. LengthOf(more, "none", i) = << >> /\ BodyOf(more, "none", i) = << >>
      BY <1>1, <2>1 DEF LengthOf, BodyOf
    <3>2. rest2[i] = << >> /\ rest2[i - 1] = << >>
      BY <1>1, <1>2, <1>6, <1>7, <2>1
    <3>3. << >> \o (<< >> \o << >>) = << >>
      OBVIOUS
    <3> QED BY <3>1, <3>2, <3>3
  <2>2. CASE i # n + 1
    <3>1. i \in 1 .. n /\ i - 1 \in 0 .. n /\ i \in 0 .. n
      BY <1>1, <2>2
    <3>2. rest[i - 1] = LengthOf(ms, "whole", i) \o (BodyOf(ms, "whole", i) \o rest[i])
      BY <3>1 DEF Chain
    <3>3. rest2[i - 1] = rest[i - 1] /\ rest2[i] = rest[i]
      BY <1>7, <3>1
    <3> QED BY <1>8, <3>1, <3>2, <3>3
  <2> QED BY <2>1, <2>2
<1> HIDE DEF rest2
<1>10. Chain(more, "none", rest2)
  BY <1>1, <1>5, <1>6, <1>9 DEF Chain
<1> QED BY <1>5, <1>7, <1>8, <1>10

(* The bytes of a write, by what was written of the request before it.     *)
Written(ms, part) ==
  IF part = "none" THEN int_bytes(Len(message_pack(ms[Len(ms)]))) ELSE message_pack(ms[Len(ms)])
\* What a write makes of the part.
NextPart(part) == IF part = "none" THEN "length" ELSE "whole"

\* A write sends bytes.
LEMMA WrittenIs ==
  ASSUME NEW ms \in Seq(MessageT), Len(ms) > 0, NEW part
  PROVE  Written(ms, part) \in Seq(Byte)
<1>1. Len(ms) \in 1 .. Len(ms)
  BY LenProperties
<1>2. ms[Len(ms)] \in MessageT
  BY <1>1, ElementOfSeq
<1> QED BY <1>2, PackedIs, IntBytesAre DEF Written

\* The empty sequence adds nothing.
LEMMA EmptyAround ==
  ASSUME NEW a \in Seq(Byte)
  PROVE  a \o << >> = a /\ << >> \o a = a
BY ConcatEmptySeq

\* A write adds to the last request of the chain.
LEMMA LastPiece ==
  ASSUME NEW ms \in Seq(MessageT), Len(ms) > 0, NEW part \in {"none", "length"}
  PROVE  LET n == Len(ms)
             bytes == Written(ms, part)
         IN  /\ LengthOf(ms, part, n) \o (BodyOf(ms, part, n) \o << >>) \o bytes =
                   LengthOf(ms, NextPart(part), n) \o (BodyOf(ms, NextPart(part), n) \o << >>)
             /\ part # "none" =>
                   (BodyOf(ms, part, n) \o << >>) \o bytes = BodyOf(ms, NextPart(part), n) \o << >>
<1> DEFINE n == Len(ms)
           l == int_bytes(Len(message_pack(ms[n])))
           p == message_pack(ms[n])
<1>1. n \in 1 .. n
  BY LenProperties
<1>2. ms[n] \in MessageT
  BY <1>1, ElementOfSeq
<1>3. p \in Seq(Byte) /\ l \in Seq(Byte) /\ << >> \in Seq(Byte)
  BY <1>2, PackedIs, IntBytesAre
<1>4. CASE part = "none"
  <2>1. /\ LengthOf(ms, part, n) = << >> /\ BodyOf(ms, part, n) = << >>
        /\ LengthOf(ms, NextPart(part), n) = l /\ BodyOf(ms, NextPart(part), n) = << >>
        /\ Written(ms, part) = l
    BY <1>4 DEF LengthOf, BodyOf, NextPart, Written
  <2> HIDE DEF l, n
  <2>2. << >> \o (<< >> \o << >>) \o l = l \o (<< >> \o << >>)
    BY <1>3, EmptyAround
  <2> QED BY <1>4, <2>1, <2>2, Zenon DEF n
<1>5. CASE part = "length"
  <2>1. /\ LengthOf(ms, part, n) = l /\ BodyOf(ms, part, n) = << >>
        /\ LengthOf(ms, NextPart(part), n) = l /\ BodyOf(ms, NextPart(part), n) = p
        /\ Written(ms, part) = p
    BY <1>5 DEF LengthOf, BodyOf, NextPart, Written
  <2> HIDE DEF l, n, p
  <2>2. l \o (<< >> \o << >>) \o p = l \o (p \o << >>)
    BY <1>3, EmptyAround
  <2>3. (<< >> \o << >>) \o p = p \o << >>
    BY <1>3, EmptyAround
  <2> QED BY <2>1, <2>2, <2>3, Zenon DEF n
<1> QED BY <1>4, <1>5

\* A write moves the chain to its next part.
LEMMA WriteChain ==
  ASSUME NEW ms \in Seq(MessageT), Len(ms) > 0, NEW part \in {"none", "length"}, NEW rest,
         Chain(ms, part, rest)
  PROVE  \E rest2 \in [0 .. Len(ms) -> Seq(Byte)] :
            /\ Chain(ms, NextPart(part), rest2)
            /\ \A i \in 0 .. Len(ms) - 1 : rest2[i] = rest[i] \o Written(ms, part)
            /\ \A i \in 1 .. Len(ms) : (i = Len(ms) => part # "none") =>
                  BodyOf(ms, NextPart(part), i) \o rest2[i] =
                     (BodyOf(ms, part, i) \o rest[i]) \o Written(ms, part)
<1> DEFINE n == Len(ms)
           bytes == Written(ms, part)
           next == NextPart(part)
           rest2 == [i \in 0 .. n |-> IF i = n THEN << >> ELSE rest[i] \o bytes]
<1>1. n \in Nat /\ bytes \in Seq(Byte) /\ << >> \in Seq(Byte)
  BY LenProperties, WrittenIs
<1>2. rest \in [0 .. n -> Seq(Byte)] /\ rest[n] = << >>
  BY DEF Chain
<1> HIDE DEF bytes, next
<1>3. ASSUME NEW i \in 0 .. n PROVE rest[i] \in Seq(Byte) /\ rest[i] \o bytes \in Seq(Byte)
  <2>1. rest[i] \in Seq(Byte)
    BY <1>2
  <2> QED BY <1>1, <2>1, ConcatBegins
<1>4. rest2 \in [0 .. n -> Seq(Byte)]
  BY <1>1, <1>3
<1>5. rest2[n] = << >> /\ \A i \in 0 .. n - 1 : rest2[i] = rest[i] \o bytes
  BY <1>1
<1> HIDE DEF rest2
<1>6. ASSUME NEW i \in 1 .. n, i # n
      PROVE  /\ LengthOf(ms, next, i) = LengthOf(ms, part, i)
             /\ BodyOf(ms, next, i) = BodyOf(ms, part, i)
  BY <1>6 DEF LengthOf, BodyOf
<1>7. ASSUME NEW i \in 1 .. n, i # n
      PROVE  BodyOf(ms, next, i) \o rest2[i] = (BodyOf(ms, part, i) \o rest[i]) \o bytes
  <2>1. i \in 0 .. n - 1 /\ i \in 0 .. n
    BY <1>1, <1>7
  <2>2. rest[i] \in Seq(Byte) /\ BodyOf(ms, part, i) \in Seq(Byte)
    BY <1>3, <2>1, PiecesAre
  <2>3. (BodyOf(ms, part, i) \o rest[i]) \o bytes = BodyOf(ms, part, i) \o (rest[i] \o bytes)
    BY <1>1, <2>2, BytesAssociate
  <2>4. rest2[i] = rest[i] \o bytes /\ BodyOf(ms, next, i) = BodyOf(ms, part, i)
    BY <1>5, <1>6, <1>7, <2>1
  <2> QED BY <2>3, <2>4
<1>8. part # "none" => BodyOf(ms, next, n) \o rest2[n] = (BodyOf(ms, part, n) \o rest[n]) \o bytes
  BY <1>2, <1>5, LastPiece DEF next, bytes
<1>9. ASSUME NEW i \in 1 .. n
      PROVE  rest2[i - 1] = LengthOf(ms, next, i) \o (BodyOf(ms, next, i) \o rest2[i])
  <2>1. i - 1 \in 0 .. n - 1 /\ i \in 0 .. n
    BY <1>1
  <2>2. rest2[i - 1] = rest[i - 1] \o bytes
    BY <1>5, <2>1
  <2>3. rest[i - 1] = LengthOf(ms, part, i) \o (BodyOf(ms, part, i) \o rest[i])
    BY DEF Chain
  <2>4. CASE i = n
    <3>1. rest[i] = << >> /\ rest2[i] = << >>
      BY <1>2, <1>5, <2>4
    <3> QED BY <2>2, <2>3, <2>4, <3>1, LastPiece DEF next, bytes
  <2>5. CASE i # n
    <3>1. /\ rest[i] \in Seq(Byte) /\ BodyOf(ms, part, i) \in Seq(Byte)
          /\ LengthOf(ms, part, i) \in Seq(Byte)
      BY <1>3, <2>1, PiecesAre
    <3>2. BodyOf(ms, part, i) \o rest[i] \in Seq(Byte)
      BY <3>1, ConcatBegins
    <3>3. (LengthOf(ms, part, i) \o (BodyOf(ms, part, i) \o rest[i])) \o bytes =
             LengthOf(ms, part, i) \o ((BodyOf(ms, part, i) \o rest[i]) \o bytes)
      BY <1>1, <3>1, <3>2, BytesAssociate
    <3>4. /\ LengthOf(ms, next, i) = LengthOf(ms, part, i)
          /\ BodyOf(ms, next, i) \o rest2[i] = (BodyOf(ms, part, i) \o rest[i]) \o bytes
      BY <1>6, <1>7, <2>5
    <3> QED BY <2>2, <2>3, <3>3, <3>4, Zenon
  <2> QED BY <2>4, <2>5
<1>10. Chain(ms, next, rest2)
  BY <1>1, <1>4, <1>5, <1>9 DEF Chain
<1>11. \A i \in 1 .. n : (i = n => part # "none") =>
          BodyOf(ms, next, i) \o rest2[i] = (BodyOf(ms, part, i) \o rest[i]) \o bytes
  BY <1>7, <1>8
<1> QED BY <1>4, <1>5, <1>10, <1>11 DEF next, bytes

\* The requests are messages and can be counted.
LEMMA AskedAre ==
  ASSUME TypeOK
  PROVE  /\ asked \in Seq(MessageT) /\ Len(asked) \in Nat
         /\ \A i \in 1 .. Len(asked) : asked[i] \in Requests /\ asked[i] \in MessageT
<1>1. asked \in Seq(Requests)
  BY DEF TypeOK
<1>2. Requests \subseteq MessageT
  BY FramingAssumption
<1>3. \A i \in 1 .. Len(asked) : asked[i] \in Requests
  BY <1>1, ElementOfSeq
<1>4. asked \in Seq(MessageT)
  BY <1>1, <1>2, SeqMonotonic
<1> QED BY <1>1, <1>2, <1>3, <1>4, LenProperties

(* Nothing that was handed changes when more is asked.                     *)
LEMMA AskingMore ==
  ASSUME NEW ms \in Seq(MessageT), NEW m \in MessageT, NEW hs \in Seq(Results),
         HandedTheirs(ms, hs)
  PROVE  HandedTheirs(Append(ms, m), hs)
<1>1. /\ Len(ms) \in Nat /\ Len(hs) \in Nat /\ Len(Append(ms, m)) = Len(ms) + 1
      /\ \A i \in 1 .. Len(ms) : Append(ms, m)[i] = ms[i]
  BY LenProperties, AppendProperties
<1>2. \A i \in 1 .. Len(hs) : i \in 1 .. Len(ms)
  BY <1>1 DEF HandedTheirs
<1> QED BY <1>1, <1>2 DEF HandedTheirs

\* The stream stays where it is when a request is added.
LEMMA CallKeepsPosition ==
  ASSUME NEW ms \in Seq(MessageT), NEW m \in MessageT, NEW rest, Chain(ms, "whole", rest),
         NEW stream, NEW srv, NEW h \in Nat, NEW size,
         Position(ms, "whole", rest, stream, srv, h, size)
  PROVE  \E rest2 \in [0 .. Len(Append(ms, m)) -> Seq(Byte)] :
            /\ Chain(Append(ms, m), "none", rest2)
            /\ Position(Append(ms, m), "none", rest2, stream, srv, h, size)
<1> DEFINE n == Len(ms)
           more == Append(ms, m)
<1>1. n \in Nat /\ Len(more) = n + 1 /\ \A i \in 1 .. n : more[i] = ms[i]
  BY LenProperties, AppendProperties
<1>2. PICK rest2 \in [0 .. n + 1 -> Seq(Byte)] :
         /\ Chain(more, "none", rest2)
         /\ \A i \in 0 .. n : rest2[i] = rest[i]
         /\ \A i \in 1 .. n : BodyOf(more, "none", i) = BodyOf(ms, "whole", i)
  BY CallChain
<1> HIDE DEF more
<1>3. h <= n /\ h \in 0 .. n
  BY <1>1 DEF Position
<1>4. h <= Len(more) /\ h # Len(more)
  BY <1>1, <1>3
<1>5. srv # "message" => stream = rest2[h]
  BY <1>2, <1>3 DEF Position
<1>6. ASSUME srv = "message"
      PROVE  /\ h < Len(more) /\ h + 1 # Len(more)
             /\ size = Len(message_pack(more[h + 1]))
             /\ stream = BodyOf(more, "none", h + 1) \o rest2[h + 1]
  <2>1. h < n /\ size = Len(message_pack(ms[h + 1])) /\ stream = BodyOf(ms, "whole", h + 1) \o rest[h + 1]
    BY <1>6 DEF Position
  <2>2. h + 1 \in 1 .. n /\ h + 1 \in 0 .. n
    BY <1>1, <2>1
  <2>3. /\ more[h + 1] = ms[h + 1] /\ rest2[h + 1] = rest[h + 1]
        /\ BodyOf(more, "none", h + 1) = BodyOf(ms, "whole", h + 1)
    BY <1>1, <1>2, <2>2
  <2>4. h < Len(more) /\ h + 1 # Len(more)
    BY <1>1, <2>1
  <2> QED BY <2>1, <2>3, <2>4
<1>7. Position(more, "none", rest2, stream, srv, h, size)
  BY <1>4, <1>5, <1>6 DEF Position
<1> QED BY <1>1, <1>2, <1>7 DEF more

\* A write adds to the end of the stream.
LEMMA WriteKeepsPosition ==
  ASSUME NEW ms \in Seq(MessageT), Len(ms) > 0, NEW part \in {"none", "length"}, NEW rest,
         Chain(ms, part, rest),
         NEW stream, NEW srv, NEW h \in Nat, NEW size,
         Position(ms, part, rest, stream, srv, h, size)
  PROVE  \E rest2 \in [0 .. Len(ms) -> Seq(Byte)] :
            /\ Chain(ms, NextPart(part), rest2)
            /\ Position(ms, NextPart(part), rest2, stream \o Written(ms, part), srv, h, size)
<1> DEFINE n == Len(ms)
           bytes == Written(ms, part)
           next == NextPart(part)
<1>1. n \in Nat
  BY LenProperties
<1>2. PICK rest2 \in [0 .. n -> Seq(Byte)] :
         /\ Chain(ms, next, rest2)
         /\ \A i \in 0 .. n - 1 : rest2[i] = rest[i] \o bytes
         /\ \A i \in 1 .. n : (i = n => part # "none") =>
               BodyOf(ms, next, i) \o rest2[i] = (BodyOf(ms, part, i) \o rest[i]) \o bytes
  BY WriteChain
<1>3. next # "none" /\ part # "whole"
  BY DEF NextPart
<1> HIDE DEF bytes, next
<1>4. ASSUME srv # "message"
      PROVE  h <= n /\ stream \o bytes = rest2[h] /\ h # n
  <2>1. h <= n /\ stream = rest[h] /\ h # n
    BY <1>3, <1>4 DEF Position
  <2>2. h \in 0 .. n - 1
    BY <1>1, <2>1
  <2> QED BY <1>2, <2>1, <2>2
<1>5. ASSUME srv = "message"
      PROVE  /\ h <= n /\ h < n /\ size = Len(message_pack(ms[h + 1]))
             /\ stream \o bytes = BodyOf(ms, next, h + 1) \o rest2[h + 1]
  <2>1. /\ h < n /\ (h + 1 = n => part # "none") /\ size = Len(message_pack(ms[h + 1]))
        /\ stream = BodyOf(ms, part, h + 1) \o rest[h + 1]
    BY <1>5 DEF Position
  <2>2. h + 1 \in 1 .. n /\ h <= n
    BY <1>1, <2>1
  <2>3. BodyOf(ms, next, h + 1) \o rest2[h + 1] =
           (BodyOf(ms, part, h + 1) \o rest[h + 1]) \o bytes
    BY <1>2, <2>1, <2>2
  <2> QED BY <2>1, <2>2, <2>3
<1>6. Position(ms, next, rest2, stream \o bytes, srv, h, size)
  BY <1>3, <1>4, <1>5 DEF Position
<1> QED BY <1>2, <1>6 DEF bytes, next

(* What a server finds that waits for a length, and what it finds when it  *)
(* waits for a message.                                                    *)
LEMMA LengthFound ==
  ASSUME NEW ms \in Seq(MessageT), NEW part \in Parts, NEW rest, Chain(ms, part, rest),
         NEW stream, stream # << >>, NEW h \in Nat, NEW size,
         Position(ms, part, rest, stream, "length", h, size)
  PROVE  /\ h < Len(ms) /\ h + 1 \in 1 .. Len(ms) /\ (h + 1 = Len(ms) => part # "none")
         /\ stream = int_bytes(Len(message_pack(ms[h + 1]))) \o (BodyOf(ms, part, h + 1) \o rest[h + 1])
         /\ BodyOf(ms, part, h + 1) \o rest[h + 1] \in Seq(Byte)
<1> DEFINE n == Len(ms)
<1>1. n \in Nat /\ h <= n /\ stream = rest[h]
  BY LenProperties DEF Position
<1>2. rest[n] = << >> /\ rest \in [0 .. n -> Seq(Byte)]
  BY DEF Chain
<1>3. h < n
  BY <1>1, <1>2
<1>4. h + 1 \in 1 .. n /\ h + 1 \in 0 .. n /\ (h + 1) - 1 = h
  BY <1>1, <1>3
<1>5. rest[h] = LengthOf(ms, part, h + 1) \o (BodyOf(ms, part, h + 1) \o rest[h + 1])
  BY <1>4 DEF Chain
<1>6. h + 1 = n => part # "none"
  <2> SUFFICES ASSUME h + 1 = n, part = "none" PROVE FALSE
    OBVIOUS
  <2>1. LengthOf(ms, part, h + 1) = << >> /\ BodyOf(ms, part, h + 1) = << >> /\ rest[h + 1] = << >>
    BY <1>2 DEF LengthOf, BodyOf
  <2>2. << >> \o (<< >> \o << >>) = << >>
    OBVIOUS
  <2> QED BY <1>1, <1>5, <2>1, <2>2
<1>7. LengthOf(ms, part, h + 1) = int_bytes(Len(message_pack(ms[h + 1])))
  BY <1>6 DEF LengthOf
<1>8. BodyOf(ms, part, h + 1) \o rest[h + 1] \in Seq(Byte)
  <2>1. rest[h + 1] \in Seq(Byte) /\ BodyOf(ms, part, h + 1) \in Seq(Byte)
    BY <1>2, <1>4, PiecesAre
  <2> QED BY <2>1, ConcatBegins
<1> QED BY <1>1, <1>3, <1>4, <1>5, <1>6, <1>7, <1>8

\* At a message the stream begins with all its bytes, when they are written.
LEMMA MessageFound ==
  ASSUME NEW ms \in Seq(MessageT), NEW part \in Parts, NEW rest, Chain(ms, part, rest),
         NEW stream, stream # << >>, NEW h \in Nat, NEW size,
         Position(ms, part, rest, stream, "message", h, size)
  PROVE  /\ h < Len(ms) /\ h + 1 \in 1 .. Len(ms) /\ (h + 1 = Len(ms) => part = "whole")
         /\ size = Len(message_pack(ms[h + 1]))
         /\ stream = message_pack(ms[h + 1]) \o rest[h + 1]
         /\ rest[h + 1] \in Seq(Byte)
<1> DEFINE n == Len(ms)
<1>1. /\ n \in Nat /\ h < n /\ size = Len(message_pack(ms[h + 1]))
      /\ stream = BodyOf(ms, part, h + 1) \o rest[h + 1]
  BY LenProperties DEF Position
<1>2. rest[n] = << >> /\ rest \in [0 .. n -> Seq(Byte)]
  BY DEF Chain
<1>3. h + 1 \in 1 .. n /\ h + 1 \in 0 .. n
  BY <1>1
<1>4. h + 1 = n => part = "whole"
  <2> SUFFICES ASSUME h + 1 = n, part # "whole" PROVE FALSE
    OBVIOUS
  <2>1. BodyOf(ms, part, h + 1) = << >> /\ rest[h + 1] = << >>
    BY <1>2 DEF BodyOf
  <2>2. << >> \o << >> = << >>
    OBVIOUS
  <2> QED BY <1>1, <2>1, <2>2
<1>5. BodyOf(ms, part, h + 1) = message_pack(ms[h + 1])
  BY <1>4 DEF BodyOf
<1>6. rest[h + 1] \in Seq(Byte)
  BY <1>2, <1>3
<1> QED BY <1>1, <1>3, <1>4, <1>5, <1>6

-----------------------------------------------------------------------------
\* The invariant holds at first.
LEMMA WholeStarts ==
  ASSUME Init
  PROVE  WholeReads
<1> DEFINE rest == [i \in 0 .. 0 |-> << >>]
<1>1. asked = << >> /\ handed = << >> /\ Len(asked) = 0 /\ Len(handed) = 0 /\ upstream = << >>
      /\ client = "idle" /\ server = "length"
  BY DEF Init
<1>2. HandedTheirs(asked, handed)
  BY <1>1 DEF HandedTheirs
<1>3. rest \in [0 .. 0 -> Seq(Byte)] /\ rest[0] = << >>
  <2>1. << >> \in Seq(Byte)
    OBVIOUS
  <2> QED BY <2>1
<1> HIDE DEF rest
<1>4. Chain(asked, "whole", rest)
  <2>1. 1 .. 0 = {}
    OBVIOUS
  <2> QED BY <1>1, <1>3, <2>1 DEF Chain
<1>5. Position(asked, "whole", rest, upstream, server, Len(handed), size_of_message)
  BY <1>1, <1>3 DEF Position
<1>6. PartIs("whole", client) /\ "whole" \in Parts
  BY <1>1 DEF PartIs, Parts
<1>7. rest \in [0 .. Len(asked) -> Seq(Byte)]
  BY <1>1, <1>3
<1> QED BY <1>2, <1>4, <1>5, <1>6, <1>7 DEF WholeReads, InStep

\* The steps keep the stream whole.
LEMMA CallKeepsWhole ==
  ASSUME TypeOK, WholeReads, Call
  PROVE  WholeReads'
<1>1. PICK m \in Requests : asked' = Append(asked, m)
  BY DEF Call
<1>2. /\ client = "idle" /\ client' = "length"
      /\ UNCHANGED <<got, upstream, downstream, server, size_of_message, handed, answered, short,
                     pieces>>
  BY DEF Call
<1>3. asked \in Seq(MessageT) /\ m \in MessageT /\ handed \in Seq(Results) /\ Len(handed) \in Nat
  BY AskedAre, FramingAssumption, LenProperties DEF TypeOK
<1> SUFFICES ASSUME ~short PROVE InStep'
  BY <1>2 DEF WholeReads
<1>4. InStep
  BY DEF WholeReads
<1>5. HandedTheirs(asked', handed')
  BY <1>1, <1>2, <1>3, <1>4, AskingMore DEF InStep
<1>6. ASSUME ~ServerGone
      PROVE  \E part \in Parts : \E rest \in [0 .. Len(asked') -> Seq(Byte)] :
                /\ PartIs(part, client') /\ Chain(asked', part, rest)
                /\ Position(asked', part, rest, upstream', server', Len(handed'), size_of_message')
  <2>1. PICK part \in Parts, rest \in [0 .. Len(asked) -> Seq(Byte)] :
          /\ PartIs(part, client) /\ Chain(asked, part, rest)
          /\ Position(asked, part, rest, upstream, server, Len(handed), size_of_message)
    BY <1>4, <1>6 DEF InStep
  <2>2. part = "whole"
    BY <1>2, <2>1 DEF PartIs
  <2>3. \E rest2 \in [0 .. Len(Append(asked, m)) -> Seq(Byte)] :
            /\ Chain(Append(asked, m), "none", rest2)
            /\ Position(Append(asked, m), "none", rest2, upstream, server, Len(handed),
                        size_of_message)
    BY <1>3, <2>1, <2>2, CallKeepsPosition
  <2>4. PartIs("none", client') /\ "none" \in Parts
    BY <1>2 DEF PartIs, Parts
  <2> QED BY <1>1, <1>2, <2>3, <2>4, Zenon
<1>7. ServerGone' <=> ServerGone
  BY <1>2 DEF ServerGone
<1> QED BY <1>5, <1>6, <1>7 DEF InStep

LEMMA WriteKeepsWhole ==
  ASSUME FramingIInv, WholeReads, WriteLength \/ WriteMessage
  PROVE  WholeReads'
<1> DEFINE n == Len(asked)
<1>1. PICK part \in {"none", "length"} :
         /\ client = IF part = "none" THEN "length" ELSE "message"
         /\ \/ /\ PartIs(NextPart(part), client')
               /\ upstream' = IF ServerGone THEN upstream ELSE upstream \o Written(asked, part)
            \/ ServerGone
         /\ UNCHANGED <<asked, got, downstream, server, size_of_message, handed, answered, short,
                        pieces>>
  <2>1. CASE WriteLength
    BY <2>1 DEF WriteLength, Write, Written, NextPart, PartIs, Parts, Last
  <2>2. CASE WriteMessage
    BY <2>2 DEF WriteMessage, Write, Written, NextPart, PartIs, Parts, Last
  <2> QED BY <2>1, <2>2
<1>2. asked \in Seq(MessageT) /\ Len(asked) > 0 /\ Len(handed) \in Nat
  <2>1. Len(got) \in Nat /\ Len(handed) \in Nat /\ asked \in Seq(MessageT) /\ Len(asked) \in Nat
    BY AskedAre, LenProperties DEF FramingIInv, TypeOK
  <2>2. client \in {"length", "message"}
    BY <1>1
  <2>3. Len(got) < Len(asked)
    BY <2>2 DEF FramingIInv, Calling
  <2> QED BY <2>1, <2>3
<1> SUFFICES ASSUME ~short PROVE InStep'
  BY <1>1 DEF WholeReads
<1>3. InStep
  BY DEF WholeReads
<1>4. HandedTheirs(asked', handed')
  BY <1>1, <1>3 DEF InStep
<1>5. ASSUME ~ServerGone
      PROVE  \E p \in Parts : \E rest \in [0 .. Len(asked') -> Seq(Byte)] :
                /\ PartIs(p, client') /\ Chain(asked', p, rest)
                /\ Position(asked', p, rest, upstream', server', Len(handed'), size_of_message')
  <2>1. PICK p \in Parts, rest \in [0 .. Len(asked) -> Seq(Byte)] :
          /\ PartIs(p, client) /\ Chain(asked, p, rest)
          /\ Position(asked, p, rest, upstream, server, Len(handed), size_of_message)
    BY <1>3, <1>5 DEF InStep
  <2>2. p = part
    BY <1>1, <2>1 DEF PartIs
  <2>3. \E rest2 \in [0 .. Len(asked) -> Seq(Byte)] :
            /\ Chain(asked, NextPart(part), rest2)
            /\ Position(asked, NextPart(part), rest2, upstream \o Written(asked, part), server,
                        Len(handed), size_of_message)
    BY <1>2, <2>1, <2>2, WriteKeepsPosition
  <2>4. PartIs(NextPart(part), client') /\ NextPart(part) \in Parts
    BY <1>1, <1>5 DEF PartIs
  <2>5. upstream' = upstream \o Written(asked, part)
    BY <1>1, <1>5
  <2>6. asked' = asked /\ server' = server /\ handed' = handed /\ size_of_message' = size_of_message
    BY <1>1
  <2> QED BY <2>3, <2>4, <2>5, <2>6, Zenon
<1>6. ServerGone' <=> ServerGone
  BY <1>1 DEF ServerGone
<1> QED BY <1>4, <1>5, <1>6 DEF InStep

(* What the client reads changes nothing on the way to the server.         *)
LEMMA ReadKeepsWhole ==
  ASSUME WholeReads, ReadReply \/ ReadEnd \/ Leave
  PROVE  WholeReads'
<1>1. UNCHANGED <<asked, upstream, server, size_of_message, handed, short>>
  BY DEF ReadReply, ReadEnd, Leave
<1>2. client' = "gone" \/ (client = "reply" /\ client' = "idle")
  <2>1. CASE ReadReply
    <3>1. client = "reply" /\ \E result : client' = IF result = Null THEN "gone" ELSE "idle"
      BY <2>1, Zenon DEF ReadReply
    <3> QED BY <3>1
  <2>2. CASE ReadEnd \/ Leave
    BY <2>2 DEF ReadEnd, Leave
  <2> QED BY <2>1, <2>2
<1>3. \A part \in Parts : PartIs(part, client) => PartIs(part, client')
  BY <1>2 DEF PartIs
<1>4. ServerGone' <=> ServerGone
  BY <1>1 DEF ServerGone
<1>5. CASE short
  BY <1>1, <1>5 DEF WholeReads
<1>6. CASE ~short
  <2>1. HandedTheirs(asked', handed')
    BY <1>1, <1>6 DEF WholeReads, InStep
  <2>2. ASSUME ~ServerGone
        PROVE  \E part \in Parts : \E rest \in [0 .. Len(asked') -> Seq(Byte)] :
                  /\ PartIs(part, client') /\ Chain(asked', part, rest)
                  /\ Position(asked', part, rest, upstream', server', Len(handed'),
                              size_of_message')
    <3>1. PICK part \in Parts, rest \in [0 .. Len(asked) -> Seq(Byte)] :
            /\ PartIs(part, client) /\ Chain(asked, part, rest)
            /\ Position(asked, part, rest, upstream, server, Len(handed), size_of_message)
      BY <1>6, <2>2 DEF WholeReads, InStep
    <3>2. PartIs(part, client')
      BY <1>3, <3>1
    <3> QED BY <1>1, <3>1, <3>2
  <2> QED BY <1>4, <2>1, <2>2 DEF WholeReads, InStep
<1> QED BY <1>5, <1>6

(* The end of the connection: what was handed stays what it was.           *)
LEMMA EndKeepsWhole ==
  ASSUME WholeReads, asked' = asked, handed' = handed, short' \/ ~short, ServerGone'
  PROVE  WholeReads'
<1>1. CASE short'
  BY <1>1 DEF WholeReads
<1>2. CASE ~short'
  <2>1. HandedTheirs(asked', handed')
    BY <1>2 DEF WholeReads, InStep
  <2> QED BY <2>1 DEF WholeReads, InStep
<1> QED BY <1>1, <1>2

LEMMA ReceiveLengthKeepsWhole ==
  ASSUME FitsInInt, FramingIInv, WholeReads, ReceiveLength
  PROVE  WholeReads'
<1>0. server = "length" /\ ~ServerGone /\ UNCHANGED <<client, asked, handed>>
  BY DEF ReceiveLength, Close, ServerGone
<1>1. CASE Close
  BY <1>0, <1>1, EndKeepsWhole DEF Close, ServerGone
<1>2. CASE short'
  BY <1>2 DEF WholeReads
<1>3. CASE ~Close /\ ~short'
  <2>1. PICK n \in Arrived(upstream, 4) :
           /\ size_of_message' = int_of(SubSeq(upstream, 1, n))
           /\ upstream' = SubSeq(upstream, n + 1, Len(upstream))
           /\ short' = (short \/ n < 4)
    BY <1>3 DEF ReceiveLength
  <2>2. server' = "message"
    BY <1>3 DEF ReceiveLength
  <2>3. ~short /\ ~(n < 4)
    BY <1>3, <2>1
  <2>4. upstream \in Seq(Byte) /\ Len(handed) \in Nat
    BY LenProperties DEF FramingIInv, TypeOK
  <2>5. n = 4 /\ upstream # << >>
    BY <2>3, <2>4, ArrivedIs
  <2>6. InStep
    BY <2>3 DEF WholeReads
  <2> DEFINE h == Len(handed)
  <2>7. PICK part \in Parts, rest \in [0 .. Len(asked) -> Seq(Byte)] :
          /\ PartIs(part, client) /\ Chain(asked, part, rest)
          /\ Position(asked, part, rest, upstream, server, h, size_of_message)
    BY <1>0, <2>6 DEF InStep
  <2> DEFINE m == asked[h + 1]
             b == BodyOf(asked, part, h + 1) \o rest[h + 1]
             l == int_bytes(Len(message_pack(m)))
  <2>a. asked \in Seq(MessageT)
    BY AskedAre DEF FramingIInv
  <2>8. /\ h < Len(asked) /\ h + 1 \in 1 .. Len(asked) /\ (h + 1 = Len(asked) => part # "none")
        /\ upstream = l \o b /\ b \in Seq(Byte)
    BY <1>0, <2>4, <2>5, <2>7, <2>a, LengthFound
  <2>9. m \in Requests /\ m \in MessageT
    BY <2>8, AskedAre DEF FramingIInv
  <2>10. Len(message_pack(m)) \in Nat /\ Len(message_pack(m)) \in Int32
    BY <2>9, PackedIs DEF FitsInInt
  <2>11. l \in Seq(Byte) /\ Len(l) = 4 /\ int_of(l) = Len(message_pack(m))
    BY <2>10, IntBytesAre, IntOfIntBytes
  <2> HIDE DEF b, l, m
  <2>12. SubSeq(upstream, 1, 4) = l /\ SubSeq(upstream, 4 + 1, Len(upstream)) = b
    <3>1. SubSeq(l \o b, 1, Len(l)) = l /\ SubSeq(l \o b, Len(l) + 1, Len(l \o b)) = b
      BY <2>8, <2>11, FrontAndRest
    <3> QED BY <2>8, <2>11, <3>1, Zenon
  <2>13. size_of_message' = Len(message_pack(m)) /\ upstream' = b
    BY <2>1, <2>5, <2>11, <2>12
  <2>14. Position(asked, part, rest, upstream', server', h, size_of_message')
    <3>1. h <= Len(asked)
      BY <2>4, <2>8, <2>a, LenProperties
    <3> QED BY <2>2, <2>8, <2>13, <3>1, Zenon DEF Position, m, b
  <2>15. HandedTheirs(asked, handed)
    BY <2>6 DEF InStep
  <2> QED BY <1>0, <2>7, <2>14, <2>15, Zenon DEF WholeReads, InStep
<1> QED BY <1>1, <1>2, <1>3

(* A message that was taken for itself.                                    *)
LEMMA HandedOneMore ==
  ASSUME NEW ms \in Seq(MessageT), NEW hs \in Seq(Results), HandedTheirs(ms, hs),
         NEW result \in Results, Len(hs) + 1 \in 1 .. Len(ms), result = Sent(ms[Len(hs) + 1])
  PROVE  HandedTheirs(ms, Append(hs, result)) /\ Len(Append(hs, result)) = Len(hs) + 1
<1>1. /\ Len(hs) \in Nat /\ Len(Append(hs, result)) = Len(hs) + 1 /\ Len(ms) \in Nat
      /\ \A i \in 1 .. Len(hs) : Append(hs, result)[i] = hs[i]
      /\ Append(hs, result)[Len(hs) + 1] = result
  BY LenProperties, AppendProperties
<1>2. ASSUME NEW i \in 1 .. Len(hs) + 1 PROVE Append(hs, result)[i] = Sent(ms[i])
  <2>1. i \in 1 .. Len(hs) \/ i = Len(hs) + 1
    BY <1>1
  <2> QED BY <1>1, <2>1 DEF HandedTheirs
<1> QED BY <1>1, <1>2 DEF HandedTheirs

\* No bytes become no message that is handed on, and nothing crashes.
LEMMA TakeNothing ==
  ASSUME WholeReads, Take(<< >>, 0), asked' = asked
  PROVE  WholeReads'
<1>1. server' = "closed" /\ handed' = handed
  BY ResultsApart DEF Take, Unpacked, Bad, Null
<1>2. short' \/ ~short
  BY DEF Take
<1> QED BY <1>1, <1>2, EndKeepsWhole DEF ServerGone

(* When the read is whole, the bytes are those of the next request, and    *)
(* what follows is the rest of the stream.                                 *)
LEMMA TakeWhole ==
  ASSUME FramingIInv, InStep, server = "message", size_of_message > 0,
         NEW n \in Arrived(upstream, size_of_message),
         ~(Len(SubSeq(upstream, 1, n)) < size_of_message)
  PROVE  /\ Len(handed) + 1 \in 1 .. Len(asked)
         /\ asked[Len(handed) + 1] \in Requests
         /\ Unpacked(SubSeq(upstream, 1, n), size_of_message) = {Sent(asked[Len(handed) + 1])}
         /\ n = size_of_message
         /\ \E part \in Parts : \E rest \in [0 .. Len(asked) -> Seq(Byte)] :
               /\ PartIs(part, client) /\ Chain(asked, part, rest)
               /\ Len(handed) + 1 = Len(asked) => part = "whole"
               /\ SubSeq(upstream, n + 1, Len(upstream)) = rest[Len(handed) + 1]
<1> DEFINE h == Len(handed)
           m == asked[h + 1]
           p == message_pack(m)
<1>0. ~ServerGone
  BY DEF ServerGone
<1>1. upstream \in Seq(Byte) /\ h \in Nat /\ size_of_message \in Nat \ {0} /\ asked \in Seq(MessageT)
  BY LenProperties, AskedAre DEF FramingIInv, TypeOK, Int32
<1>2. n \in 1 .. Len(upstream) /\ n <= size_of_message /\ upstream # << >>
  BY <1>1, ArrivedIs
<1>3. Len(SubSeq(upstream, 1, n)) = n
  BY <1>1, <1>2, BytesTaken
<1>4. n = size_of_message
  BY <1>1, <1>2, <1>3
<1>5. PICK part \in Parts, rest \in [0 .. Len(asked) -> Seq(Byte)] :
        /\ PartIs(part, client) /\ Chain(asked, part, rest)
        /\ Position(asked, part, rest, upstream, server, h, size_of_message)
  BY <1>0 DEF InStep
<1>6. /\ h + 1 \in 1 .. Len(asked) /\ (h + 1 = Len(asked) => part = "whole")
      /\ size_of_message = Len(p) /\ upstream = p \o rest[h + 1] /\ rest[h + 1] \in Seq(Byte)
  BY <1>1, <1>2, <1>5, MessageFound
<1>7. m \in Requests /\ m \in MessageT
  BY <1>6, AskedAre DEF FramingIInv
<1>8. p \in Seq(Byte)
  BY <1>7, PackedIs
<1>9. Unpacked(p, Len(p)) = {Sent(m)}
  BY <1>1, <1>6, <1>7, UnpackedPacked
<1> HIDE DEF p, m
<1>10. SubSeq(upstream, 1, Len(p)) = p /\ SubSeq(upstream, Len(p) + 1, Len(upstream)) = rest[h + 1]
  BY <1>6, <1>8, FrontAndRest
<1>11. /\ Unpacked(SubSeq(upstream, 1, n), size_of_message) = {Sent(m)}
       /\ SubSeq(upstream, n + 1, Len(upstream)) = rest[h + 1]
  BY <1>4, <1>6, <1>9, <1>10
<1> QED BY <1>4, <1>5, <1>6, <1>7, <1>11 DEF m

LEMMA TakeKeepsWhole ==
  ASSUME FramingIInv, WholeReads, server = "message", size_of_message > 0,
         UNCHANGED <<client, asked>>,
         NEW n \in Arrived(upstream, size_of_message),
         Take(SubSeq(upstream, 1, n), size_of_message),
         upstream' = SubSeq(upstream, n + 1, Len(upstream))
  PROVE  WholeReads'
<1>1. CASE short'
  BY <1>1 DEF WholeReads
<1>2. CASE ~short'
  <2>1. ~short /\ ~(Len(SubSeq(upstream, 1, n)) < size_of_message)
    BY <1>2 DEF Take
  <2>2. InStep
    BY <2>1 DEF WholeReads
  <2> DEFINE h == Len(handed)
             m == asked[h + 1]
  <2>3. /\ h + 1 \in 1 .. Len(asked) /\ m \in Requests
        /\ Unpacked(SubSeq(upstream, 1, n), size_of_message) = {Sent(m)}
    BY <2>1, <2>2, TakeWhole
  <2>4. PICK part \in Parts, rest \in [0 .. Len(asked) -> Seq(Byte)] :
               /\ PartIs(part, client) /\ Chain(asked, part, rest)
               /\ h + 1 = Len(asked) => part = "whole"
               /\ upstream' = rest[h + 1]
    BY <2>1, <2>2, TakeWhole
  <2>5. server' = "reply" /\ handed' = Append(handed, Sent(m))
    BY <2>3, ResultsApart DEF Take
  <2>6. asked \in Seq(MessageT) /\ handed \in Seq(Results) /\ Sent(m) \in Results /\ h \in Nat
    BY <2>3, AskedAre, LenProperties DEF FramingIInv, TypeOK, Results
  <2>7. HandedTheirs(asked, handed') /\ Len(handed') = h + 1
    BY <2>2, <2>3, <2>5, <2>6, HandedOneMore DEF InStep
  <2>8. Position(asked, part, rest, upstream', server', h + 1, size_of_message')
    <3>1. h + 1 <= Len(asked)
      BY <2>3, <2>6
    <3> QED BY <2>4, <2>5, <3>1 DEF Position
  <2>9. client' = client /\ asked' = asked
    OBVIOUS
  <2> HIDE DEF h
  <2> QED BY <2>4, <2>7, <2>8, <2>9, Zenon DEF WholeReads, InStep
<1> QED BY <1>1, <1>2

LEMMA ReceiveMessageKeepsWhole ==
  ASSUME FramingIInv, WholeReads, ReceiveMessage
  PROVE  WholeReads'
<1>0. server = "message" /\ UNCHANGED <<client, asked>>
  BY DEF ReceiveMessage
<1>1. CASE Close
  BY <1>0, <1>1, EndKeepsWhole DEF Close, ServerGone
<1>2. CASE Take(<< >>, 0)
  BY <1>0, <1>2, TakeNothing
<1>3. CASE size_of_message > 0 /\ Take(<< >>, size_of_message)
  <2>1. short'
    BY <1>3 DEF Take
  <2> QED BY <2>1 DEF WholeReads
<1>4. CASE /\ size_of_message > 0
           /\ \E n \in Arrived(upstream, size_of_message) :
                /\ Take(SubSeq(upstream, 1, n), size_of_message)
                /\ upstream' = SubSeq(upstream, n + 1, Len(upstream))
  BY <1>0, <1>4, TakeKeepsWhole
<1>5. CASE /\ server' = "crashed"
           /\ UNCHANGED <<upstream, downstream, size_of_message, handed, answered, short>>
  BY <1>0, <1>5, EndKeepsWhole DEF ServerGone
<1> QED BY <1>1, <1>2, <1>3, <1>4, <1>5 DEF ReceiveMessage

LEMMA SendReplyKeepsWhole ==
  ASSUME WholeReads, SendReply
  PROVE  WholeReads'
<1>0. server = "reply" /\ ~ServerGone /\ UNCHANGED <<client, asked>>
  BY DEF SendReply, ServerGone
<1>1. CASE Close
  BY <1>0, <1>1, EndKeepsWhole DEF Close, ServerGone
<1>2. CASE short
  <2>1. short'
    BY <1>2 DEF SendReply, Close
  <2> QED BY <2>1 DEF WholeReads
<1>3. CASE ~Close /\ ~short
  <2>1. server' = "length" /\ UNCHANGED <<upstream, size_of_message, handed, short>>
    BY <1>3 DEF SendReply
  <2>2. InStep
    BY <1>3 DEF WholeReads
  <2>3. PICK part \in Parts, rest \in [0 .. Len(asked) -> Seq(Byte)] :
          /\ PartIs(part, client) /\ Chain(asked, part, rest)
          /\ Position(asked, part, rest, upstream, server, Len(handed), size_of_message)
    BY <1>0, <2>2 DEF InStep
  <2>4. Position(asked, part, rest, upstream, "length", Len(handed), size_of_message)
    BY <1>0, <2>3 DEF Position
  <2>5. HandedTheirs(asked, handed)
    BY <2>2 DEF InStep
  <2> QED BY <1>0, <2>1, <2>3, <2>4, <2>5, Zenon DEF WholeReads, InStep
<1> QED BY <1>1, <1>2, <1>3

LEMMA StutterKeepsWhole ==
  ASSUME WholeReads, UNCHANGED vars
  PROVE  WholeReads'
BY DEF WholeReads, InStep, ServerGone, vars

\* The first requests are a prefix.
LEMMA HandedPrefix ==
  ASSUME TypeOK, HandedTheirs(asked, handed)
  PROVE  IsPrefix(handed, Whole(asked))
<1> DEFINE w == Whole(asked)
           n == Len(handed)
<1>1. /\ asked \in Seq(MessageT) /\ handed \in Seq(Results) /\ n \in Nat /\ Len(asked) \in Nat
      /\ \A i \in 1 .. Len(asked) : asked[i] \in Requests
  BY AskedAre, LenProperties DEF TypeOK
<1>2. w = [i \in 1 .. Len(asked) |-> Sent(asked[i])]
  BY <1>1, LenProperties DEF Whole
<1>3. \A i \in 1 .. Len(asked) : Sent(asked[i]) \in Results
  BY <1>1 DEF Results
<1>4. w \in Seq(Results) /\ Len(w) = Len(asked)
  BY <1>1, <1>2, <1>3, IsASeq
<1>5. \A i \in 1 .. Len(asked) : w[i] = Sent(asked[i])
  BY <1>2
<1> HIDE DEF w
<1>6. n <= Len(w) /\ \A i \in 1 .. n : i \in 1 .. Len(asked) /\ w[i] = handed[i] /\ handed[i] \in Results
  <2>1. n <= Len(asked) /\ \A i \in 1 .. n : handed[i] = Sent(asked[i])
    BY DEF HandedTheirs
  <2>2. \A i \in 1 .. n : i \in 1 .. Len(asked)
    BY <1>1, <2>1
  <2> QED BY <1>3, <1>4, <1>5, <2>1, <2>2
<1>7. SubSeq(handed, 1, n) = SubSeq(w, 1, n)
  <2>1. /\ SubSeq(handed, 1, n) \in Seq(Results) /\ Len(SubSeq(handed, 1, n)) = n
        /\ \A i \in 1 .. n - 1 + 1 : SubSeq(handed, 1, n)[i] = handed[1 + i - 1]
    BY <1>1, <1>6, SubSeqProperties
  <2>2. /\ SubSeq(w, 1, n) \in Seq(Results) /\ Len(SubSeq(w, 1, n)) = n
        /\ \A i \in 1 .. n - 1 + 1 : SubSeq(w, 1, n)[i] = w[1 + i - 1]
    BY <1>1, <1>6, SubSeqProperties
  <2> DEFINE a == SubSeq(handed, 1, n)
             b == SubSeq(w, 1, n)
  <2>3. \A i \in 1 .. Len(a) : a[i] = b[i]
    <3>1. ASSUME NEW i \in 1 .. n PROVE a[i] = b[i]
      <4>1. i \in 1 .. n - 1 + 1 /\ 1 + i - 1 = i
        BY <1>1
      <4> QED BY <1>6, <2>1, <2>2, <4>1
    <3> QED BY <2>1, <3>1
  <2> HIDE DEF a, b
  <2> QED BY <2>1, <2>2, <2>3, SeqEqual DEF a, b
<1> QED BY <1>4, <1>6, <1>7 DEF IsPrefix, w

\* Whole reads keep it in every behaviour.
LEMMA WholeReadsHold ==
  ASSUME FitsInInt
  PROVE  Spec => []WholeReads
<1>1. Init => WholeReads
  BY WholeStarts
<1>2. FramingIInv /\ WholeReads /\ [Next]_vars => WholeReads'
  BY CallKeepsWhole, WriteKeepsWhole, ReadKeepsWhole, ReceiveLengthKeepsWhole,
     ReceiveMessageKeepsWhole, SendReplyKeepsWhole, StutterKeepsWhole DEF Next, FramingIInv
<1>3. Spec => []FramingIInv
  BY FramingTypes
<1> QED BY <1>1, <1>2, <1>3, PTL DEF Spec

\* network_receive of the server (message.c, network_server.c): as long as no read
\* returned less than it asked for, what was handed to invoke are the first requests
\* of the client, unchanged, whatever writes, replies and the client's end come between.
THEOREM RequestsAlwaysArrive ==
  ASSUME FitsInInt
  PROVE  Spec => []RequestsArrive
<1>1. FramingIInv /\ WholeReads => RequestsArrive
  BY HandedPrefix DEF FramingIInv, WholeReads, InStep, RequestsArrive, HandedAsAsked
<1> QED BY <1>1, FramingTypes, WholeReadsHold, PTL

(* The buffers that malloc is asked for are ones it has.                   *)
FitsInMemory == \A m \in Requests : Len(message_pack(m)) \in Int32 /\ Len(message_pack(m)) < Huge

\* With room for every buffer no step crashes the server.
LEMMA StepSurvives ==
  ASSUME FitsInMemory, FramingIInv, WholeReads, SurvivesWholeReads, Next
  PROVE  SurvivesWholeReads'
<1> SUFFICES ASSUME ~short', server' = "crashed" PROVE FALSE
  BY DEF SurvivesWholeReads
<1>1. CASE UNCHANGED <<server, short>>
  BY <1>1 DEF SurvivesWholeReads
<1>2. CASE ReceiveMessage
  <2>0. server = "message" /\ ~ServerGone
    BY <1>2 DEF ReceiveMessage, ServerGone
  <2>1. ~short
    BY <1>2 DEF ReceiveMessage, Take, Close
  <2>2. InStep
    BY <2>1 DEF WholeReads
  <2>3. ~NoBuffer
    <3>1. PICK part \in Parts, rest \in [0 .. Len(asked) -> Seq(Byte)] :
            Position(asked, part, rest, upstream, server, Len(handed), size_of_message)
      BY <2>0, <2>2 DEF InStep
    <3>2. /\ Len(handed) < Len(asked) /\ Len(handed) \in Nat /\ Len(asked) \in Nat
          /\ size_of_message = Len(message_pack(asked[Len(handed) + 1]))
      BY <2>0, <3>1, AskedAre, LenProperties DEF Position, FramingIInv, TypeOK
    <3>3. asked[Len(handed) + 1] \in Requests /\ asked[Len(handed) + 1] \in MessageT
      <4>1. Len(handed) + 1 \in 1 .. Len(asked)
        BY <3>2
      <4> QED BY <4>1, AskedAre DEF FramingIInv
    <3>4. size_of_message \in Nat /\ size_of_message < Huge
      BY <3>2, <3>3, PackedIs DEF FitsInMemory
    <3> QED BY <3>4, FramingAssumption DEF NoBuffer
  <2>4. CASE Take(<< >>, 0)
    BY <2>4 DEF Take, Unpacked, Bad, Null
  <2>5. CASE size_of_message > 0 /\ Take(<< >>, size_of_message)
    BY <2>5 DEF Take
  <2>6. CASE Close
    BY <2>6 DEF Close
  <2>7. CASE /\ size_of_message > 0
             /\ \E n \in Arrived(upstream, size_of_message) :
                  Take(SubSeq(upstream, 1, n), size_of_message)
    <3>1. PICK n \in Arrived(upstream, size_of_message) :
             Take(SubSeq(upstream, 1, n), size_of_message)
      BY <2>7
    <3>2. ~(Len(SubSeq(upstream, 1, n)) < size_of_message)
      BY <3>1 DEF Take
    <3>3. Unpacked(SubSeq(upstream, 1, n), size_of_message) = {Sent(asked[Len(handed) + 1])}
      BY <2>0, <2>2, <2>7, <3>2, TakeWhole
    <3> QED BY <3>1, <3>3, ResultsApart DEF Take
  <2> QED BY <1>2, <2>3, <2>4, <2>5, <2>6, <2>7 DEF ReceiveMessage
<1>3. CASE ReceiveLength
  BY <1>3 DEF ReceiveLength, Close
<1>4. CASE SendReply
  BY <1>4 DEF SendReply, Close
<1>5. Call \/ WriteLength \/ WriteMessage \/ ReadReply \/ ReadEnd \/ Leave =>
        UNCHANGED <<server, short>>
  BY DEF Call, WriteLength, WriteMessage, Write, ReadReply, ReadEnd, Leave
<1> QED BY <1>1, <1>2, <1>3, <1>4, <1>5 DEF Next

\* ... and then the server is alive: no length without room for its buffer, and no bytes
\* that are no message, are met before a read is short.
THEOREM WholeReadsAreSurvived ==
  ASSUME FitsInMemory
  PROVE  Spec => []SurvivesWholeReads
<1>1. FitsInInt
  BY DEF FitsInMemory, FitsInInt
<1>2. Init => SurvivesWholeReads
  BY DEF Init, SurvivesWholeReads
<1>3. FramingIInv /\ WholeReads /\ SurvivesWholeReads /\ [Next]_vars => SurvivesWholeReads'
  <2>1. UNCHANGED vars /\ SurvivesWholeReads => SurvivesWholeReads'
    BY DEF vars, SurvivesWholeReads
  <2> QED BY <2>1, StepSurvives
<1>4. Spec => []WholeReads
  BY <1>1, WholeReadsHold
<1> QED BY <1>2, <1>3, <1>4, FramingTypes, PTL DEF Spec

-----------------------------------------------------------------------------
(* Replies that fit the buffer.                                            *)

\* What the client took for replies is the reply, or a closed connection.
GotTheirs(gs, rs) ==
  \A i \in 1 .. Len(gs) : gs[i] # Bad => i \in 1 .. Len(rs) /\ gs[i] = Sent(rs[i])

\* The bytes of a message and of its length.
Packed(m) == message_pack(m)
LengthBytes(m) == int_bytes(Len(message_pack(m)))

(* Where the only request on the way is, or its reply; m is the request,   *)
(* n the number of requests, rs the replies.                               *)
OnTheWay(m, n, rs, at, srv, up, down, size) ==
  \/ /\ at = "idle" /\ srv = "length" /\ up = << >> /\ down = << >> /\ Len(rs) = n
  \/ /\ at = "length" /\ srv = "length" /\ up = << >> /\ down = << >> /\ Len(rs) + 1 = n
  \/ /\ at = "message" /\ srv = "length" /\ up = LengthBytes(m) /\ down = << >> /\ Len(rs) + 1 = n
  \/ /\ at = "message" /\ srv = "message" /\ up = << >> /\ size = Len(Packed(m)) /\ down = << >>
     /\ Len(rs) + 1 = n
  \/ /\ at = "reply" /\ srv = "length" /\ up = LengthBytes(m) \o Packed(m) /\ down = << >>
     /\ Len(rs) + 1 = n
  \/ /\ at = "reply" /\ srv = "message" /\ up = Packed(m) /\ size = Len(Packed(m)) /\ down = << >>
     /\ Len(rs) + 1 = n
  \/ /\ at = "reply" /\ srv = "reply" /\ up = << >> /\ down = << >> /\ Len(rs) + 1 = n
  \/ /\ at = "reply" /\ srv = "length" /\ up = << >> /\ Len(rs) = n /\ down = Packed(rs[n])

\* How many requests were asked for when k were answered or taken.
Counted(n, k, at) == IF at = "idle" THEN k = n ELSE k + 1 = n

\* Short replies: one call at a time, and the bytes on their way are those of
\* its request or of its reply.
InTurn ==
  /\ Counted(Len(asked), Len(got), client)
  /\ ServerGone => downstream = << >>
  /\ ~ServerGone => OnTheWay(asked[Len(asked)], Len(asked), answered, client, server, upstream,
                             downstream, size_of_message)

\* The invariant of QuietWhenIdle and RepliesMatch.
OneAtATime ==
  ShortReplies => GotTheirs(got, answered) /\ (client # "gone" => InTurn)

\* More answers leave what was got right.
LEMMA GotMoreAnswers ==
  ASSUME NEW gs \in Seq(Results), NEW rs \in Seq(Replies), NEW m \in Replies,
         GotTheirs(gs, rs)
  PROVE  GotTheirs(gs, Append(rs, m))
<1>1. /\ Len(rs) \in Nat /\ Len(Append(rs, m)) = Len(rs) + 1
      /\ \A i \in 1 .. Len(rs) : Append(rs, m)[i] = rs[i]
  BY LenProperties, AppendProperties
<1>2. \A i \in 1 .. Len(rs) : i \in 1 .. Len(rs) + 1
  BY <1>1
<1> QED BY <1>1, <1>2 DEF GotTheirs

\* The answer to the present call is the reply to it.
LEMMA GotOneMore ==
  ASSUME NEW gs \in Seq(Results), NEW rs, NEW result \in Results, GotTheirs(gs, rs),
         result # Bad => Len(gs) + 1 \in 1 .. Len(rs) /\ result = Sent(rs[Len(gs) + 1])
  PROVE  GotTheirs(Append(gs, result), rs)
<1>1. /\ Len(gs) \in Nat /\ Len(Append(gs, result)) = Len(gs) + 1
      /\ \A i \in 1 .. Len(gs) : Append(gs, result)[i] = gs[i]
      /\ Append(gs, result)[Len(gs) + 1] = result
  BY LenProperties, AppendProperties
<1>2. ASSUME NEW i \in 1 .. Len(gs) + 1, Append(gs, result)[i] # Bad
      PROVE  i \in 1 .. Len(rs) /\ Append(gs, result)[i] = Sent(rs[i])
  <2>1. i \in 1 .. Len(gs) \/ i = Len(gs) + 1
    BY <1>1
  <2>2. CASE i \in 1 .. Len(gs)
    BY <1>1, <1>2, <2>2 DEF GotTheirs
  <2>3. CASE i = Len(gs) + 1
    <3>1. result # Bad
      BY <1>1, <1>2, <2>3
    <3> QED BY <1>1, <2>3, <3>1
  <2> QED BY <2>1, <2>2, <2>3
<1> QED BY <1>1, <1>2 DEF GotTheirs

(* The hypothesis only ever stops to hold.                                 *)
LEMMA ShortBefore ==
  ASSUME FramingIInv, [Next]_vars, ShortReplies'
  PROVE  ShortReplies
<1>1. pieces' = pieces
  BY DEF Next, vars, Call, WriteLength, WriteMessage, Write, ReadReply, ReadEnd, Leave,
         ReceiveLength, ReceiveMessage, SendReply
<1>2. answered \in Seq(Replies)
  BY DEF FramingIInv, TypeOK
<1>3. answered' = answered \/ \E m \in Replies : answered' = Append(answered, m)
  BY DEF Next, vars, Call, WriteLength, WriteMessage, Write, ReadReply, ReadEnd, Leave,
         ReceiveLength, ReceiveMessage, SendReply, Close, Take
<1>4. CASE answered' = answered
  BY <1>1, <1>4 DEF ShortReplies
<1>5. ASSUME NEW m \in Replies, answered' = Append(answered, m)
      PROVE  ShortReplies
  <2>1. /\ Len(answered) \in Nat /\ Len(answered') = Len(answered) + 1
        /\ \A i \in 1 .. Len(answered) : answered'[i] = answered[i]
        /\ DOMAIN answered = 1 .. Len(answered) /\ answered' \in Seq(Replies)
    BY <1>2, <1>5, LenProperties, AppendProperties
  <2>2. DOMAIN answered' = 1 .. Len(answered')
    BY <2>1, LenProperties
  <2>3. \A i \in 1 .. Len(answered) : i \in 1 .. Len(answered')
    BY <2>1
  <2> QED BY <1>1, <2>1, <2>2, <2>3 DEF ShortReplies
<1> QED BY <1>3, <1>4, <1>5

\* The steps take their turns.
LEMMA TurnStarts ==
  ASSUME Init
  PROVE  OneAtATime
<1>1. /\ Len(asked) = 0 /\ Len(got) = 0 /\ Len(answered) = 0 /\ client = "idle" /\ server = "length"
      /\ upstream = << >> /\ downstream = << >>
  BY DEF Init
<1>2. GotTheirs(got, answered)
  BY <1>1 DEF GotTheirs
<1> QED BY <1>1, <1>2 DEF OneAtATime, InTurn, Counted, ServerGone, OnTheWay

LEMMA CallKeepsTurn ==
  ASSUME FramingIInv, GotTheirs(got, answered), client # "gone" => InTurn, Call
  PROVE  GotTheirs(got', answered') /\ InTurn'
<1>1. PICK m \in Requests : asked' = Append(asked, m)
  BY DEF Call
<1>2. /\ client = "idle" /\ client' = "length"
      /\ UNCHANGED <<got, upstream, downstream, server, size_of_message, handed, answered, short,
                     pieces>>
  BY DEF Call
<1>3. /\ Len(asked) \in Nat /\ Len(got) \in Nat /\ Len(answered) \in Nat
      /\ Len(asked') = Len(asked) + 1
  BY <1>1, AppendProperties, LenProperties DEF FramingIInv, TypeOK
<1>4. Counted(Len(asked'), Len(got'), client')
  BY <1>2, <1>3 DEF InTurn, Counted
<1>5. ServerGone' => downstream' = << >>
  BY <1>2 DEF InTurn, ServerGone
<1>6. ASSUME ~ServerGone'
      PROVE  OnTheWay(asked'[Len(asked')], Len(asked'), answered', client', server', upstream',
                      downstream', size_of_message')
  <2>1. ~ServerGone
    BY <1>2, <1>6 DEF ServerGone
  <2>2. /\ server = "length" /\ upstream = << >> /\ downstream = << >> /\ Len(answered) = Len(asked)
    BY <1>2, <2>1 DEF InTurn, OnTheWay
  <2>3. Len(answered') + 1 = Len(asked')
    BY <1>2, <1>3, <2>2
  <2> QED BY <1>2, <2>2, <2>3 DEF OnTheWay
<1> QED BY <1>2, <1>4, <1>5, <1>6 DEF InTurn

\* The present request.
LEMMA LastAskedIs ==
  ASSUME FramingIInv, client # "idle", InTurn
  PROVE  /\ Len(asked) \in 1 .. Len(asked) /\ asked[Len(asked)] \in Requests
         /\ asked[Len(asked)] \in MessageT
         /\ Packed(asked[Len(asked)]) \in Seq(Byte) /\ Len(Packed(asked[Len(asked)])) \in Nat
         /\ LengthBytes(asked[Len(asked)]) \in Seq(Byte)
<1>1. Len(asked) \in Nat /\ Len(got) \in Nat
  BY LenProperties DEF FramingIInv, TypeOK
<1>2. Len(got) + 1 = Len(asked)
  BY DEF InTurn, Counted
<1>3. Len(asked) \in 1 .. Len(asked)
  BY <1>1, <1>2
<1>4. asked[Len(asked)] \in Requests /\ asked[Len(asked)] \in MessageT
  BY <1>3, AskedAre DEF FramingIInv
<1> QED BY <1>3, <1>4, PackedIs, IntBytesAre DEF Packed, LengthBytes

LEMMA WriteKeepsTurn ==
  ASSUME FramingIInv, GotTheirs(got, answered), client # "gone" => InTurn,
         WriteLength \/ WriteMessage, client' # "gone"
  PROVE  GotTheirs(got', answered') /\ InTurn'
<1> DEFINE m == asked[Len(asked)]
<1>1. /\ client \in {"length", "message"}
      /\ client' = IF client = "length" THEN "message" ELSE "reply"
      /\ upstream' = IF ServerGone THEN upstream
                     ELSE upstream \o (IF client = "length" THEN LengthBytes(m) ELSE Packed(m))
      /\ UNCHANGED <<asked, got, downstream, server, size_of_message, handed, answered, short,
                     pieces>>
  <2>1. CASE WriteLength
    BY <2>1 DEF WriteLength, Write, Last, LengthBytes
  <2>2. CASE WriteMessage
    BY <2>2 DEF WriteMessage, Write, Last, Packed
  <2> QED BY <2>1, <2>2
<1>2. InTurn /\ client # "idle"
  BY <1>1
<1>3. Packed(m) \in Seq(Byte) /\ LengthBytes(m) \in Seq(Byte)
  BY <1>2, LastAskedIs
<1>4. Counted(Len(asked'), Len(got'), client')
  BY <1>1, <1>2 DEF InTurn, Counted
<1>5. ServerGone' => downstream' = << >>
  BY <1>1, <1>2 DEF InTurn, ServerGone
<1>6. ASSUME ~ServerGone'
      PROVE  OnTheWay(m, Len(asked), answered, client', server, upstream', downstream,
                      size_of_message)
  <2>1. ~ServerGone
    BY <1>1, <1>6 DEF ServerGone
  <2>2. OnTheWay(m, Len(asked), answered, client, server, upstream, downstream, size_of_message)
    BY <1>2, <2>1 DEF InTurn
  <2>3. << >> \o LengthBytes(m) = LengthBytes(m) /\ << >> \o Packed(m) = Packed(m)
    BY <1>3, EmptyAround
  <2> HIDE DEF m
  <2>4. CASE client = "length"
    <3>1. server = "length" /\ upstream = << >> /\ downstream = << >> /\ Len(answered) + 1 = Len(asked)
      BY <2>2, <2>4 DEF OnTheWay
    <3>2. client' = "message" /\ upstream' = LengthBytes(m)
      BY <1>1, <2>1, <2>3, <2>4, <3>1
    <3> QED BY <3>1, <3>2 DEF OnTheWay
  <2>5. CASE client = "message"
    <3>1. /\ downstream = << >> /\ Len(answered) + 1 = Len(asked)
          /\ \/ server = "length" /\ upstream = LengthBytes(m)
             \/ server = "message" /\ upstream = << >> /\ size_of_message = Len(Packed(m))
      BY <2>2, <2>5 DEF OnTheWay
    <3>2. client' = "reply" /\ upstream' = upstream \o Packed(m)
      BY <1>1, <2>1, <2>5
    <3>3. CASE server = "length" /\ upstream = LengthBytes(m)
      BY <3>1, <3>2, <3>3 DEF OnTheWay
    <3>4. CASE server = "message" /\ upstream = << >> /\ size_of_message = Len(Packed(m))
      <4>1. upstream' = Packed(m)
        BY <2>3, <3>2, <3>4
      <4> QED BY <3>1, <3>2, <3>4, <4>1 DEF OnTheWay
    <3> QED BY <3>1, <3>3, <3>4
  <2> QED BY <1>1, <2>4, <2>5
<1> QED BY <1>1, <1>4, <1>5, <1>6 DEF InTurn

\* A read of all there is leaves nothing.
LEMMA AllTaken ==
  ASSUME NEW b \in Seq(Byte)
  PROVE  SubSeq(b, 1, Len(b)) = b /\ SubSeq(b, Len(b) + 1, Len(b)) = << >>
<1>1. Len(b) \in Int /\ Len(b) + 1 \in Int /\ Len(b) < Len(b) + 1
  BY LenProperties
<1> QED BY <1>1, SubSeqFull, SubSeqEmpty

(* The reply is read whole and taken for itself.                           *)
LEMMA ReplyRead ==
  ASSUME FramingIInv, ShortReplies, InTurn, client = "reply", ~ServerGone,
         NEW n \in Arrived(downstream, MaxMsg)
  PROVE  /\ Len(answered) = Len(asked) /\ Len(answered) \in 1 .. Len(answered)
         /\ server = "length" /\ upstream = << >>
         /\ n = Len(downstream) /\ SubSeq(downstream, n + 1, Len(downstream)) = << >>
         /\ Unpacked(SubSeq(downstream, 1, n), n) = {Sent(answered[Len(answered)])}
<1> DEFINE k == Len(answered)
<1>1. downstream \in Seq(Byte) /\ answered \in Seq(Replies) /\ Len(downstream) \in Nat /\ MaxMsg \in Nat \ {0}
  BY FramingAssumption, LenProperties DEF FramingIInv, TypeOK
<1>2. downstream # << >> /\ n \in 1 .. Len(downstream) /\ ~pieces
      /\ n = IF Len(downstream) <= MaxMsg THEN Len(downstream) ELSE MaxMsg
  BY <1>1, ArrivedIs DEF ShortReplies
<1>3. OnTheWay(asked[Len(asked)], Len(asked), answered, "reply", server, upstream, downstream,
               size_of_message)
  BY DEF InTurn
<1>4. server = "length" /\ upstream = << >> /\ k = Len(asked) /\ downstream = Packed(answered[k])
  BY <1>2, <1>3, Zenon DEF OnTheWay
<1>5. k \in 1 .. k
  BY <1>4, LastAskedIs
<1>6. answered[k] \in Replies /\ DOMAIN answered = 1 .. k
  BY <1>1, <1>5, ElementOfSeq, LenProperties
<1>7. Len(downstream) <= MaxMsg
  BY <1>4, <1>5, <1>6 DEF ShortReplies, Packed
<1>8. n = Len(downstream)
  BY <1>2, <1>7
<1>9. SubSeq(downstream, 1, n) = downstream /\ SubSeq(downstream, n + 1, Len(downstream)) = << >>
  BY <1>1, <1>8, SubSeqFull, SubSeqEmpty
<1>10. Len(message_pack(answered[k])) # 0
  BY <1>1, <1>2, <1>4, <1>8 DEF Packed
<1>11. Unpacked(message_pack(answered[k]), Len(message_pack(answered[k]))) = {Sent(answered[k])}
  BY <1>6, <1>10, UnpackedPacked
<1> QED BY <1>4, <1>5, <1>8, <1>9, <1>11 DEF Packed

LEMMA ReadReplyKeepsTurn ==
  ASSUME FramingIInv, ShortReplies, GotTheirs(got, answered), client # "gone" => InTurn, ReadReply
  PROVE  GotTheirs(got', answered') /\ InTurn'
<1>1. PICK n \in Arrived(downstream, MaxMsg) :
         /\ \E result \in Unpacked(SubSeq(downstream, 1, n), n) :
               /\ got' = Append(got, result)
               /\ client' = IF result = Null THEN "gone" ELSE "idle"
         /\ downstream' = SubSeq(downstream, n + 1, Len(downstream))
  BY DEF ReadReply
<1>2. client = "reply" /\ UNCHANGED <<asked, upstream, server, size_of_message, handed, answered, short, pieces>>
  BY DEF ReadReply
<1>3. InTurn
  BY <1>2
<1>4. ~ServerGone
  BY <1>1, <1>3 DEF InTurn, Arrived
<1> DEFINE k == Len(answered)
<1>5. /\ k = Len(asked) /\ k \in 1 .. k /\ server = "length" /\ upstream = << >>
      /\ downstream' = << >>
      /\ Unpacked(SubSeq(downstream, 1, n), n) = {Sent(answered[k])}
  BY <1>1, <1>2, <1>3, <1>4, ReplyRead
<1>6. got' = Append(got, Sent(answered[k])) /\ client' = "idle"
  BY <1>1, <1>5, ResultsApart
<1>7. got \in Seq(Results) /\ Len(got) \in Nat /\ Len(got) + 1 = k /\ answered \in Seq(Replies)
  BY <1>2, <1>3, <1>5, LenProperties DEF FramingIInv, TypeOK, InTurn, Counted
<1>8. Sent(answered[k]) \in Results
  BY <1>5, <1>7, ElementOfSeq DEF Results
<1>9. GotTheirs(got', answered)
  BY <1>5, <1>6, <1>7, <1>8, GotOneMore
<1>10. Len(got') = Len(asked)
  BY <1>5, <1>6, <1>7, <1>8, AppendProperties
<1> QED BY <1>2, <1>4, <1>5, <1>6, <1>9, <1>10 DEF InTurn, Counted, ServerGone, OnTheWay

LEMMA ReadEndKeepsTurn ==
  ASSUME FramingIInv, GotTheirs(got, answered), client # "gone" => InTurn, ReadEnd, client' # "gone"
  PROVE  GotTheirs(got', answered') /\ InTurn'
<1>1. /\ client = "reply" /\ client' = "idle" /\ ServerGone /\ downstream = << >>
      /\ got' = Append(got, Bad)
      /\ UNCHANGED <<asked, upstream, downstream, server, size_of_message, handed, answered, short,
                     pieces>>
  BY DEF ReadEnd
<1>2. got \in Seq(Results) /\ Len(got) \in Nat /\ Len(got) + 1 = Len(asked)
  BY <1>1, LenProperties DEF FramingIInv, TypeOK, InTurn, Counted
<1>3. GotTheirs(got', answered) /\ Len(got') = Len(asked)
  BY <1>1, <1>2, GotOneMore, AppendProperties, BadIs
<1> QED BY <1>1, <1>3 DEF InTurn, Counted, ServerGone

(* The server closes: the client waits for what it has sent.               *)
LEMMA ClosedInTurn ==
  ASSUME InTurn, UNCHANGED <<client, asked, got, downstream>>, downstream = << >>, ServerGone'
  PROVE  InTurn'
BY DEF InTurn

LEMMA ReceiveLengthKeepsTurn ==
  ASSUME FitsInInt, FramingIInv, ShortReplies, client # "gone", InTurn, ReceiveLength
  PROVE  InTurn'
<1> DEFINE m == asked[Len(asked)]
           b == LengthBytes(m)
<1>1. PICK n \in Arrived(upstream, 4) :
           /\ size_of_message' = int_of(SubSeq(upstream, 1, n))
           /\ upstream' = SubSeq(upstream, n + 1, Len(upstream))
  BY DEF ReceiveLength, Reset, ClientGone
<1>2. /\ server = "length" /\ server' = "message"
      /\ UNCHANGED <<client, asked, got, pieces, downstream, answered>>
  BY DEF ReceiveLength, Reset, ClientGone
<1>3. ~ServerGone /\ ~ServerGone'
  BY <1>2 DEF ServerGone
<1>4. OnTheWay(m, Len(asked), answered, client, "length", upstream, downstream, size_of_message)
  BY <1>2, <1>3 DEF InTurn
<1>5. upstream \in Seq(Byte)
  BY DEF FramingIInv, TypeOK
<1>6. upstream # << >> /\ n = IF Len(upstream) <= 4 THEN Len(upstream) ELSE 4
  BY <1>5, ArrivedIs DEF ShortReplies
<1>7. /\ downstream = << >> /\ Len(answered) + 1 = Len(asked)
      /\ \/ client = "message" /\ upstream = b
         \/ client = "reply" /\ upstream = b \o Packed(m)
  BY <1>4, <1>6, Zenon DEF OnTheWay
<1>8. client # "idle"
  BY <1>7
<1>9. m \in Requests /\ m \in MessageT /\ Packed(m) \in Seq(Byte) /\ Len(Packed(m)) \in Nat
  BY <1>8, LastAskedIs
<1>10. b \in Seq(Byte) /\ Len(b) = 4 /\ int_of(b) = Len(Packed(m))
  BY <1>9, IntBytesAre, IntOfIntBytes DEF LengthBytes, Packed, FitsInInt
<1> HIDE DEF b, m
<1>11. CASE client = "message" /\ upstream = b
  <2>1. n = Len(upstream)
    BY <1>6, <1>10, <1>11
  <2>a. SubSeq(upstream, 1, n) = upstream /\ SubSeq(upstream, n + 1, Len(upstream)) = << >>
    BY <1>5, <2>1, AllTaken
  <2>2. size_of_message' = Len(Packed(m)) /\ upstream' = << >>
    BY <1>1, <1>10, <1>11, <2>a
  <2>3. OnTheWay(m, Len(asked), answered, client, "message", upstream', downstream, size_of_message')
    BY <1>7, <1>11, <2>2, Zenon DEF OnTheWay
  <2> QED BY <1>2, <1>3, <2>3 DEF InTurn, m
<1>12. CASE client = "reply" /\ upstream = b \o Packed(m)
  <2>1. /\ SubSeq(b \o Packed(m), 1, Len(b)) = b
        /\ SubSeq(b \o Packed(m), Len(b) + 1, Len(b \o Packed(m))) = Packed(m)
    BY <1>9, <1>10, FrontAndRest
  <2>2. Len(b \o Packed(m)) = 4 + Len(Packed(m))
    <3>1. Len(b \o Packed(m)) = Len(b) + Len(Packed(m))
      BY <1>9, <1>10, ConcatBegins
    <3> QED BY <1>10, <3>1, Zenon
  <2>3. n = 4
    BY <1>6, <1>9, <1>12, <2>2
  <2>4. size_of_message' = Len(Packed(m)) /\ upstream' = Packed(m)
    BY <1>1, <1>10, <1>12, <2>1, <2>3
  <2>5. OnTheWay(m, Len(asked), answered, client, "message", upstream', downstream, size_of_message')
    BY <1>7, <1>12, <2>4, Zenon DEF OnTheWay
  <2> QED BY <1>2, <1>3, <2>5 DEF InTurn, m
<1> QED BY <1>7, <1>11, <1>12

LEMMA ReceiveMessageKeepsTurn ==
  ASSUME FramingIInv, ShortReplies, client # "gone", InTurn, ReceiveMessage
  PROVE  InTurn'
<1> DEFINE m == asked[Len(asked)]
<1>1. server = "message" /\ UNCHANGED <<client, asked, got, pieces, downstream, answered>>
  BY DEF ReceiveMessage, Close, Take
<1>2. ~ServerGone
  BY <1>1 DEF ServerGone
<1>3. OnTheWay(m, Len(asked), answered, client, "message", upstream, downstream, size_of_message)
  BY <1>1, <1>2 DEF InTurn
<1>4. /\ downstream = << >> /\ Len(answered) + 1 = Len(asked) /\ size_of_message = Len(Packed(m))
      /\ \/ client = "message" /\ upstream = << >>
         \/ client = "reply" /\ upstream = Packed(m)
  BY <1>3, Zenon DEF OnTheWay
<1>5. client # "idle"
  BY <1>4
<1>6. m \in Requests /\ Packed(m) \in Seq(Byte) /\ Len(Packed(m)) \in Nat
  BY <1>5, LastAskedIs
<1>7. CASE Close
  BY <1>1, <1>4, <1>7, ClosedInTurn DEF Close, ServerGone
<1>8. CASE size_of_message = 0 /\ Take(<< >>, 0)
  <2>1. server' = "closed"
    BY <1>8, ResultsApart DEF Take, Unpacked, Bad, Null
  <2> QED BY <1>1, <1>4, <2>1, ClosedInTurn DEF ServerGone
<1>9. CASE /\ size_of_message > 0
           /\ \E n \in Arrived(upstream, size_of_message) :
                /\ Take(SubSeq(upstream, 1, n), size_of_message)
                /\ upstream' = SubSeq(upstream, n + 1, Len(upstream))
  <2>1. PICK n \in Arrived(upstream, size_of_message) :
           /\ Take(SubSeq(upstream, 1, n), size_of_message)
           /\ upstream' = SubSeq(upstream, n + 1, Len(upstream))
    BY <1>9
  <2>2. size_of_message \in Nat \ {0} /\ upstream \in Seq(Byte)
    BY <1>4, <1>6, <1>9 DEF FramingIInv, TypeOK
  <2>3. upstream # << >> /\ n = IF Len(upstream) <= size_of_message THEN Len(upstream) ELSE size_of_message
    BY <2>2, ArrivedIs DEF ShortReplies
  <2>4. client = "reply" /\ upstream = Packed(m)
    BY <1>4, <2>3
  <2>5. n = Len(upstream) /\ n = size_of_message
    BY <1>4, <1>6, <2>3, <2>4
  <2>6. SubSeq(upstream, 1, n) = upstream /\ SubSeq(upstream, n + 1, Len(upstream)) = << >>
    BY <2>2, <2>5, AllTaken
  <2>7. Len(message_pack(m)) # 0
    BY <1>4, <2>2 DEF Packed
  <2>8. Unpacked(SubSeq(upstream, 1, n), size_of_message) = {Sent(m)}
    BY <1>4, <1>6, <2>4, <2>6, <2>7, UnpackedPacked DEF Packed
  <2>9. server' = "reply" /\ upstream' = << >>
    BY <2>1, <2>6, <2>8, ResultsApart DEF Take
  <2>10. OnTheWay(m, Len(asked), answered, client, "reply", upstream', downstream, size_of_message')
    BY <1>4, <2>4, <2>9, Zenon DEF OnTheWay
  <2> QED BY <1>1, <1>2, <2>9, <2>10 DEF InTurn, ServerGone
<1> QED BY <1>7, <1>8, <1>9 DEF ReceiveMessage, ClientGone, Reset

LEMMA SendReplyKeepsTurn ==
  ASSUME FramingIInv, client # "gone", InTurn, SendReply
  PROVE  InTurn'
<1>1. PICK r \in Replies :
         answered' = Append(answered, r) /\ downstream' = downstream \o message_pack(r)
  BY DEF SendReply, ClientGone
<1>2. /\ server = "reply" /\ server' = "length"
      /\ UNCHANGED <<client, asked, got, pieces, upstream, size_of_message>>
  BY DEF SendReply, ClientGone
<1>3. ~ServerGone /\ ~ServerGone'
  BY <1>2 DEF ServerGone
<1> DEFINE m == asked[Len(asked)]
<1>4. OnTheWay(m, Len(asked), answered, client, "reply", upstream, downstream, size_of_message)
  BY <1>2, <1>3 DEF InTurn
<1>5. client = "reply" /\ upstream = << >> /\ downstream = << >> /\ Len(answered) + 1 = Len(asked)
  BY <1>4, Zenon DEF OnTheWay
<1>6. answered \in Seq(Replies) /\ Len(answered) \in Nat
  BY LenProperties DEF FramingIInv, TypeOK
<1>7. Len(answered') = Len(asked) /\ answered'[Len(asked)] = r
  BY <1>1, <1>5, <1>6, AppendProperties
<1>8. message_pack(r) \in Seq(Byte)
  BY PackedIs, FramingAssumption
<1>9. downstream' = Packed(answered'[Len(asked)])
  BY <1>1, <1>5, <1>7, <1>8, EmptyAround DEF Packed
<1>10. OnTheWay(m, Len(asked), answered', client, "length", upstream, downstream', size_of_message)
  BY <1>5, <1>7, <1>9, Zenon DEF OnTheWay
<1> QED BY <1>2, <1>3, <1>10 DEF InTurn

(* The server leaves what was got alone, and only adds to the replies.     *)
LEMMA ServerKeepsGot ==
  ASSUME FramingIInv, GotTheirs(got, answered), ReceiveLength \/ ReceiveMessage \/ SendReply
  PROVE  GotTheirs(got', answered') /\ client' = client
<1>1. got' = got /\ client' = client
  BY DEF ReceiveLength, ReceiveMessage, SendReply
<1>2. answered \in Seq(Replies) /\ got \in Seq(Results)
  BY DEF FramingIInv, TypeOK
<1>3. answered' = answered \/ \E m \in Replies : answered' = Append(answered, m)
  BY DEF ReceiveLength, ReceiveMessage, SendReply, Close, Take
<1> QED BY <1>1, <1>2, <1>3, GotMoreAnswers

\* Every step keeps the turns.
LEMMA TurnKept ==
  ASSUME FitsInInt, FramingIInv, OneAtATime, [Next]_vars
  PROVE  OneAtATime'
<1> SUFFICES ASSUME ShortReplies'
             PROVE  GotTheirs(got', answered') /\ (client' # "gone" => InTurn')
  BY DEF OneAtATime
<1>1. ShortReplies
  BY ShortBefore
<1>2. GotTheirs(got, answered) /\ (client # "gone" => InTurn)
  BY <1>1 DEF OneAtATime
<1>3. CASE UNCHANGED vars
  BY <1>2, <1>3 DEF vars, InTurn, ServerGone
<1>4. CASE Call
  BY <1>2, <1>4, CallKeepsTurn
<1>5. CASE WriteLength \/ WriteMessage
  <2>1. got' = got /\ answered' = answered
    BY <1>5 DEF WriteLength, WriteMessage, Write
  <2> QED BY <1>2, <1>5, <2>1, WriteKeepsTurn
<1>6. CASE ReadReply
  BY <1>1, <1>2, <1>6, ReadReplyKeepsTurn
<1>7. CASE ReadEnd
  <2>1. client' = "gone" => got' = got
    BY <1>7 DEF ReadEnd
  <2>2. answered' = answered
    BY <1>7 DEF ReadEnd
  <2> QED BY <1>2, <1>7, <2>1, <2>2, ReadEndKeepsTurn
<1>8. CASE Leave
  BY <1>2, <1>8 DEF Leave
<1>9. CASE ReceiveLength \/ ReceiveMessage \/ SendReply
  <2>1. GotTheirs(got', answered') /\ client' = client
    BY <1>2, <1>9, ServerKeepsGot
  <2> QED BY <1>1, <1>2, <1>9, <2>1, ReceiveLengthKeepsTurn, ReceiveMessageKeepsTurn,
             SendReplyKeepsTurn
<1> QED BY <1>3, <1>4, <1>5, <1>6, <1>7, <1>8, <1>9 DEF Next

\* In turn, the checked invariant holds.
LEMMA TurnShows ==
  ASSUME FramingIInv, OneAtATime
  PROVE  RepliesArrive
<1>1. /\ DOMAIN got = 1 .. Len(got) /\ DOMAIN answered = 1 .. Len(answered)
  BY LenProperties DEF FramingIInv, TypeOK
<1>2. RepliesMatch
  BY <1>1 DEF RepliesMatch, OneAtATime, GotTheirs
<1>3. ASSUME ShortReplies, client = "idle", ~ServerGone
      PROVE  upstream = << >> /\ downstream = << >> /\ Len(answered) = Len(asked)
  <2>1. OnTheWay(asked[Len(asked)], Len(asked), answered, "idle", server, upstream,
                 downstream, size_of_message)
    BY <1>3 DEF OneAtATime, InTurn
  <2> QED BY <2>1, Zenon DEF OnTheWay
<1> QED BY <1>2, <1>3 DEF RepliesArrive, QuietWhenIdle

\* network_send_receive of the client: when reads find what was written and no reply is
\* longer than MAX_MSG, each call returns the reply to its own request, or sees the
\* connection closed, and a client at rest has an empty connection.
THEOREM RepliesAlwaysArrive ==
  ASSUME FitsInInt
  PROVE  Spec => []RepliesArrive
<1>1. Init => OneAtATime
  BY TurnStarts
<1>2. FramingIInv /\ OneAtATime /\ [Next]_vars => OneAtATime'
  BY TurnKept
<1>3. FramingIInv /\ OneAtATime => RepliesArrive
  BY TurnShows
<1> QED BY <1>1, <1>2, <1>3, FramingTypes, PTL DEF Spec

-----------------------------------------------------------------------------
(* Unpack: the blocks.                                                     *)

(* The buffer allocated with get_packed_size is what pack fills: neither   *)
(* overrun nor left with a tail that was not written (message.c,           *)
(* network_client.c and network_server.c allocate with the one and fill    *)
(* with the other).                                                        *)
THEOREM BufferIsFilled == UnpackSpec => []PackFillsBuffer
<1> DEFINE Theirs == sent.first \in Messages /\ sent.second \in Messages
<1>1. UnpackInit => Theirs
  <2> SUFFICES ASSUME UnpackInit PROVE Theirs
    OBVIOUS
  <2>1. PICK m1 \in Messages, m2 \in Messages :
          \E i, j : sent = [first |-> m1, second |-> m2, from |-> i, to |-> j]
    BY Zenon DEF UnpackInit
  <2> QED
    BY <2>1
<1>2. Theirs /\ [UnpackNext]_unpackVars => Theirs'
  BY DEF UnpackNext, Alloc, Scan, CleanupDuringScan, AllocUnknown, ParseMember, Return, Invoke, Send, unpackVars
<1>3. Theirs => PackFillsBuffer
  <2> SUFFICES ASSUME Theirs, NEW m \in {sent.first, sent.second}
               PROVE  Len(message_pack(m)) = message_get_packed_size(m)
    BY Zenon DEF PackFillsBuffer
  <2>1. m \in MessageT
    BY UnpackAssumption
  <2> QED
    BY <2>1, PackedSizeIsLength
<1> QED
  BY <1>1, <1>2, <1>3, PTL DEF UnpackSpec

-----------------------------------------------------------------------------
(* What the variables other than heap and misfreed hold.                   *)

\* The types.
Member == [tag : Int, field : 0 .. n_fields, wire : Int, data : Seq(Byte), pref : Int]

IsMessage(m) ==
  m = [opcode |-> m.opcode, c_type |-> m.c_type, data_size |-> m.data_size,
       data |-> m.data, key |-> m.key]

\* What the variables hold.
Shape ==
  /\ rem \in Seq(Byte)
  /\ scanned \in Seq(Member)
  /\ which_slab \in Nat
  /\ parsed \in 0 .. Len(scanned)
  /\ IsMessage(message)

\* The types hold at first.
LEMMA InitShape == UnpackInit => Shape
<1> SUFFICES ASSUME UnpackInit PROVE Shape
  OBVIOUS
<1>1. rem \in Seq(Byte)
  <2>1. PICK m1 \in Messages, m2 \in Messages :
          LET len == Len(message_pack(m1) \o message_pack(m2))
          IN  \E i \in 1 .. len + 1 : \E j \in i - 1 .. len :
                sent = [first |-> m1, second |-> m2, from |-> i, to |-> j]
    BY Zenon DEF UnpackInit
  <2> DEFINE p1 == message_pack(m1)
             p2 == message_pack(m2)
             s == p1 \o p2
  <2>2. PICK i \in 1 .. Len(s) + 1 : \E j \in i - 1 .. Len(s) :
                sent = [first |-> m1, second |-> m2, from |-> i, to |-> j]
    BY <2>1
  <2>3. PICK j \in i - 1 .. Len(s) :
                sent = [first |-> m1, second |-> m2, from |-> i, to |-> j]
    BY <2>2
  <2>4. p1 \in Seq(Byte) /\ p2 \in Seq(Byte)
    BY PackedSizeIsLength, UnpackAssumption
  <2>5. rem = SubSeq(s, i, j)
    BY <2>3 DEF UnpackInit, data, Stream
  <2> HIDE DEF p1, p2
  <2>6. s \in Seq(Byte) /\ Len(s) \in Nat
    BY <2>4, ConcatProperties, LenProperties
  <2> HIDE DEF s
  <2>7. \A x \in i .. j : s[x] \in Byte
    BY <2>6
  <2> QED
    BY <2>5, <2>6, <2>7, SubSeqProperties
<1>2. IsMessage(message)
  BY DEF UnpackInit, IsMessage
<1>3. scanned \in Seq(Member) /\ Len(scanned) = 0
  BY DEF UnpackInit
<1> QED
  BY <1>1, <1>2, <1>3 DEF Shape, UnpackInit

(* Storing into field i of a message: only one pointer changes, and only   *)
(* when the field is a string.                                             *)
Stores(m, name, v, stored) ==
  /\ IsMessage(stored)
  /\ name = "data" => stored.data = v /\ stored.key = m.key
  /\ name = "key" => stored.key = v /\ stored.data = m.data
  /\ name \notin {"data", "key"} => stored.data = m.data /\ stored.key = m.key

\* The field a member is stored in.
NameOf(i) == message_t__field_descriptors[i].name
TypeOf(i) == message_t__field_descriptors[i].type

\* The names of the fields are five different ones.
LEMMA FieldNames ==
  ASSUME NEW i \in 1 .. n_fields
  PROVE  /\ NameOf(i) \in {"opcode", "c_type", "data_size", "data", "key"}
         /\ TypeOf(i) = "STRING" <=> NameOf(i) \in {"data", "key"}
<1>1. i = 1 \/ i = 2 \/ i = 3 \/ i = 4 \/ i = 5
  BY DEF n_fields
<1>2. CASE i = 1
  BY <1>2 DEF message_t__field_descriptors, NameOf, TypeOf
<1>3. CASE i = 2
  BY <1>3 DEF message_t__field_descriptors, NameOf, TypeOf
<1>4. CASE i = 3
  BY <1>4 DEF message_t__field_descriptors, NameOf, TypeOf
<1>5. CASE i = 4
  BY <1>5 DEF message_t__field_descriptors, NameOf, TypeOf
<1>6. CASE i = 5
  BY <1>6 DEF message_t__field_descriptors, NameOf, TypeOf
<1> QED
  BY <1>1, <1>2, <1>3, <1>4, <1>5, <1>6

\* A store changes one field.
LEMMA StoreInto ==
  ASSUME NEW m, IsMessage(m), NEW v,
         NEW name \in {"opcode", "c_type", "data_size", "data", "key"}
  PROVE  Stores(m, name, v, [m EXCEPT ![name] = v])
<1>1. DOMAIN m = {"opcode", "c_type", "data_size", "data", "key"}
  BY DEF IsMessage
<1> DEFINE stored == [m EXCEPT ![name] = v]
<1>2. DOMAIN stored = DOMAIN m
  OBVIOUS
<1>3. \A f \in DOMAIN m : stored[f] = IF f = name THEN v ELSE m[f]
  OBVIOUS
<1>4. stored = [f \in DOMAIN stored |-> stored[f]]
  BY <1>2
<1> HIDE DEF stored
<1>5. stored = [opcode |-> stored.opcode, c_type |-> stored.c_type,
                data_size |-> stored.data_size, data |-> stored.data, key |-> stored.key]
  BY <1>1, <1>2, <1>4
<1>6. /\ stored["data"] = IF "data" = name THEN v ELSE m["data"]
      /\ stored["key"] = IF "key" = name THEN v ELSE m["key"]
  BY <1>1, <1>3
<1> QED
  BY <1>5, <1>6 DEF Stores, IsMessage, stored

(* The member that Scan appends, and what is left after it.                *)
FoundHead == parse_tag_and_wiretype(rem)
\* what follows the head,
FoundBody == SubSeq(rem, FoundHead.used + 1, Len(rem))
\* and how long the member is.
FoundLength == member_length(FoundBody, FoundHead.wire)
\* What the scan of one member finds.
Found ==
  [tag |-> FoundHead.tag, field |-> int_range_lookup(FoundHead.tag),
   wire |-> FoundHead.wire, data |-> SubSeq(FoundBody, 1, FoundLength),
   pref |-> IF FoundHead.wire = WIRE_TYPE_LENGTH_PREFIXED THEN VarintLength(FoundBody, 5) ELSE 0]

\* It has the types, and the rest stays bytes.
LEMMA ScanFinds ==
  ASSUME rem \in Seq(Byte), rem # << >>
  PROVE  Found \in Member /\ SubSeq(FoundBody, FoundLength + 1, Len(FoundBody)) \in Seq(Byte)
<1>1. /\ FoundHead.used \in 0 .. Len(rem) /\ FoundHead.wire \in Int /\ FoundHead.tag \in Int
      /\ Len(rem) \in Nat
  BY HeadIs, LenProperties DEF FoundHead
<1>2. FoundBody \in Seq(Byte)
  <2> DEFINE u == FoundHead.used + 1
  <2>1. u \in Int /\ 1 <= u
    BY <1>1
  <2> HIDE DEF u
  <2>2. \A x \in u .. Len(rem) : rem[x] \in Byte
    BY <1>1, <2>1
  <2>3. SubSeq(rem, u, Len(rem)) \in Seq(Byte)
    BY <1>1, <2>1, <2>2, SubSeqProperties
  <2> QED
    BY <2>3 DEF FoundBody, u
<1>3. FoundLength \in 0 .. Len(FoundBody) /\ Len(FoundBody) \in Nat
  BY <1>2, MemberLengthIs, LenProperties DEF FoundLength
<1>4. SubSeq(FoundBody, 1, FoundLength) \in Seq(Byte)
  <2>1. \A x \in 1 .. FoundLength : FoundBody[x] \in Byte
    BY <1>2, <1>3
  <2> QED
    BY <1>3, <2>1, SubSeqProperties
<1>5. SubSeq(FoundBody, FoundLength + 1, Len(FoundBody)) \in Seq(Byte)
  <2>1. \A x \in FoundLength + 1 .. Len(FoundBody) : FoundBody[x] \in Byte
    BY <1>2, <1>3
  <2> QED
    BY <1>3, <2>1, SubSeqProperties
<1>6. int_range_lookup(FoundHead.tag) \in 0 .. n_fields
  BY <1>1 DEF int_range_lookup, n_fields
<1>7. (IF FoundHead.wire = WIRE_TYPE_LENGTH_PREFIXED THEN VarintLength(FoundBody, 5) ELSE 0) \in Int
  BY <1>2, VarintLengthIs
<1> QED
  BY <1>1, <1>4, <1>5, <1>6, <1>7 DEF Found, Member

(* The two outcomes of Scan.                                               *)
Scans ==
  /\ pc = "scan"
  /\ scanned' = Append(scanned, Found)
  /\ rem' = SubSeq(FoundBody, FoundLength + 1, Len(FoundBody))
  /\ \/ heap' = heap \cup {Slab(which_slab + 1)} /\ which_slab' = which_slab + 1
     \/ UNCHANGED << which_slab, heap >>
  /\ UNCHANGED << sent, pc, parsed, message, misfreed >>

\* A scan appends, ends in an error, or finds no memory.
LEMMA ScanOutcomes ==
  ASSUME Scan
  PROVE  /\ pc = "scan" /\ rem # << >>
         /\ Scans \/ CleanupDuringScan("refused") \/ CleanupDuringScan("nomem")
BY Zenon DEF Scan, Scans, Allocate, FoundHead, FoundBody, FoundLength, Found

\* Every step keeps the types.
LEMMA StepShape == Shape /\ [UnpackNext]_unpackVars => Shape'
<1> SUFFICES ASSUME Shape, [UnpackNext]_unpackVars PROVE Shape'
  OBVIOUS
<1>1. CASE UNCHANGED << rem, scanned, which_slab, parsed, message >>
  BY <1>1 DEF Shape, IsMessage
<1>2. CASE Alloc
  BY <1>1, <1>2 DEF Alloc
<1>3. CASE Scan
  <2>1. CASE Scans
    <3>1. Found \in Member /\ rem' \in Seq(Byte)
      BY <1>3, <2>1, ScanOutcomes, ScanFinds DEF Shape, Scans
    <3>2. scanned' \in Seq(Member) /\ Len(scanned') = Len(scanned) + 1
      BY <2>1, <3>1, AppendProperties DEF Shape, Scans
    <3>3. which_slab' \in Nat
      BY <2>1 DEF Scans, Shape
    <3>4. parsed' \in 0 .. Len(scanned')
      <4>1. Len(scanned) \in Nat /\ parsed' = parsed /\ parsed \in 0 .. Len(scanned)
        BY <2>1, LenProperties DEF Scans, Shape
      <4> QED
        BY <4>1, <3>2
    <3>5. IsMessage(message')
      BY <2>1 DEF Scans, Shape
    <3> QED
      BY <3>1, <3>2, <3>3, <3>4, <3>5 DEF Shape, IsMessage
  <2> QED
    BY <1>1, <1>3, <2>1, ScanOutcomes DEF CleanupDuringScan
<1>4. CASE AllocUnknown
  BY <1>1, <1>4 DEF AllocUnknown
<1>5. CASE ParseMember
  <2> DEFINE k == parsed + 1
             i == scanned[k].field
  <2>1. k \in 1 .. Len(scanned)
    BY <1>5, LenProperties DEF ParseMember, Shape
  <2>2. i \in 0 .. n_fields
    <3>1. scanned[k] \in Member
      BY <2>1 DEF Shape
    <3> QED
      BY <3>1 DEF Member
  <2>3. parsed' \in 0 .. Len(scanned) /\ UNCHANGED << rem, scanned, which_slab >>
    BY <1>5, <2>1 DEF ParseMember
  <2>4. IsMessage(message')
    <3>1. ASSUME ~ IsUnknown(k), NEW v PROVE IsMessage([message EXCEPT ![Field(k).name] = v])
      <4>1. i \in 1 .. n_fields
        BY <2>2, <3>1 DEF IsUnknown, n_fields
      <4>2. Field(k).name = NameOf(i)
        BY DEF Field, NameOf
      <4>3. NameOf(i) \in {"opcode", "c_type", "data_size", "data", "key"}
        BY <4>1, FieldNames
      <4> HIDE DEF i, k
      <4> QED
        BY <4>2, <4>3, StoreInto DEF Stores, Shape
    <3>2. CASE UNCHANGED message
      BY <3>2 DEF Shape
    <3>3. CASE ~ IsUnknown(k) /\ StoreString(k)
      BY <3>1, <3>3 DEF StoreString, Stored
    <3>4. CASE ~ IsUnknown(k) /\ StoreNumber(k)
      BY <3>1, <3>4 DEF StoreNumber, Stored
    <3> QED
      BY <1>5, <3>2, <3>3, <3>4 DEF ParseMember, KeepUnknown
  <2> QED
    BY <2>3, <2>4 DEF Shape, IsMessage
<1>6. CASE Return
  BY <1>1, <1>6 DEF Return
<1>7. CASE Invoke \/ Send
  BY <1>1, <1>7 DEF Invoke, Send
<1>8. CASE UNCHANGED unpackVars
  BY <1>1, <1>8 DEF unpackVars
<1> QED
  BY <1>2, <1>3, <1>4, <1>5, <1>6, <1>7, <1>8 DEF UnpackNext

-----------------------------------------------------------------------------
(* Which blocks are live at which point.  Every string of the message was  *)
(* copied out of a known member of its own, so that what Owned frees is    *)
(* what was allocated.                                                     *)

\* The strings, the unknown bytes and the array that are live.
Strings(m) == {b \in {m.data, m.key} : b \notin {NULL, EmptyString}}
Unknown(n) == {Bytes(k) : k \in {k \in 1 .. n : IsUnknown(k)}}
Array == IF \E k \in 1 .. Len(scanned) : IsUnknown(k) THEN {UnknownFields} ELSE {}

\* What free_unpacked frees are these.
LEMMA OwnedIs ==
  ASSUME NEW m, NEW n
  PROVE  Owned(m, n) = Strings(m) \cup Unknown(n) \cup Array \cup {Rv}
BY Zenon DEF Owned, Strings, Unknown, Array

\* Each string of the message is the copy of a known member of its field.
PointersOwn(m, n) ==
  /\ \A b \in Strings(m) : \E k \in 1 .. n : ~ IsUnknown(k) /\ b = Bytes(k)
  /\ m.data = m.key => Strings(m) = {}

\* The live blocks, at every place of the function.
Live ==
  /\ ~ Answered => ~ misfreed
  /\ pc = "alloc" => heap = {} /\ which_slab = 0
  /\ pc = "scan" => heap = {Rv} \cup Slabs
  /\ pc \in {"alloc", "scan"} => parsed = 0 /\ Strings(message) = {}
  /\ pc = "parse" => heap = Owned(message, parsed) \cup Slabs /\ PointersOwn(message, parsed)
  /\ pc = "done" => heap = Owned(message, Len(scanned))
  /\ pc \in {"refused", "nomem"} => heap = {}

\* The blocks are different ones.
LEMMA BlocksDiffer ==
  /\ \A k : Bytes(k) \notin {NULL, EmptyString, Rv, UnknownFields}
  /\ \A j, k : Bytes(j) = Bytes(k) => j = k
  /\ \A k, s : Slab(s) \notin {Bytes(k), Rv, UnknownFields}
  /\ Rv # UnknownFields
BY DEF Bytes, NULL, EmptyString, Rv, UnknownFields, Slab

\* One more member of no field.
LEMMA UnknownGrows ==
  ASSUME NEW n \in Nat
  PROVE  /\ IsUnknown(n + 1) => Unknown(n + 1) = Unknown(n) \cup {Bytes(n + 1)}
         /\ ~ IsUnknown(n + 1) => Unknown(n + 1) = Unknown(n)
         /\ Unknown(0) = {}
<1>1. \A k : k \in 1 .. n + 1 <=> k \in 1 .. n \/ k = n + 1
  OBVIOUS
<1>2. 1 .. 0 = {}
  OBVIOUS
<1> QED
  BY <1>1, <1>2, Zenon DEF Unknown

(* A slab is no part of a message.                                         *)
LEMMA SlabsApart ==
  ASSUME NEW m, NEW n, PointersOwn(m, n)
  PROVE  Owned(m, n) \cap Slabs = {}
<1>1. \A b \in Strings(m) : \E k : b = Bytes(k)
  BY DEF PointersOwn
<1>2. \A b \in Unknown(n) : \E k : b = Bytes(k)
  BY DEF Unknown
<1>3. Array \subseteq {UnknownFields}
  BY DEF Array
<1>4. \A b \in Slabs : \E s : b = Slab(s)
  BY DEF Slabs
<1> QED
  BY <1>1, <1>2, <1>3, <1>4, BlocksDiffer, OwnedIs, Zenon

(* Storing a string frees the one the field had and forgets no other.     *)
LEMMA StoreStringKeepsLive ==
  ASSUME Shape, Live, pc = "parse", NEW k, k = parsed + 1, k \in 1 .. Len(scanned),
         ~ IsUnknown(k), TypeOf(scanned[k].field) = "STRING", StoreString(k),
         UNCHANGED << scanned, which_slab >>, parsed' = k
  PROVE  Live'
<1> DEFINE i == scanned[k].field
           old == {Pointer(k)} \ {NULL, EmptyString}
           rest == Unknown(k - 1) \cup Array \cup {Rv} \cup Slabs
<1>1. i \in 1 .. n_fields
  <2>1. scanned[k] \in Member
    BY DEF Shape
  <2> QED
    BY <2>1 DEF Member, IsUnknown, n_fields
<1>2. NameOf(i) \in {"data", "key"} /\ Field(k).name = NameOf(i)
  BY <1>1, FieldNames DEF Field, NameOf
<1>3. \A v : Stores(message, NameOf(i), v, [message EXCEPT ![NameOf(i)] = v])
  BY <1>2, StoreInto DEF Shape
<1>7. \A b \in Strings(message) : \E j \in 1 .. k - 1 : ~ IsUnknown(j) /\ b = Bytes(j)
  BY DEF Live, PointersOwn, Shape
<1>4. Strings(message) \cap rest = {}
  <2> SUFFICES ASSUME NEW b \in Strings(message), b \in rest PROVE FALSE
    OBVIOUS
  <2>1. PICK j \in 1 .. k - 1 : ~ IsUnknown(j) /\ b = Bytes(j)
    BY <1>7
  <2>2. CASE b \in Unknown(k - 1)
    <3>1. PICK l : IsUnknown(l) /\ b = Bytes(l)
      BY <2>2 DEF Unknown
    <3> QED
      BY <2>1, <3>1, BlocksDiffer
  <2>3. CASE b \in Array
    BY <2>1, <2>3, BlocksDiffer DEF Array
  <2>4. CASE b = Rv
    BY <2>1, <2>4, BlocksDiffer
  <2>5. CASE b \in Slabs
    BY <2>1, <2>5, BlocksDiffer DEF Slabs
  <2> QED
    BY <2>2, <2>3, <2>4, <2>5
<1>5. heap = Strings(message) \cup rest /\ ~ misfreed
  BY OwnedIs DEF Live, Answered, Shape
<1>8. old \subseteq Strings(message)
  BY <1>2, Zenon DEF Strings, Pointer
<1>6. ASSUME NEW v
      PROVE  Strings([message EXCEPT ![NameOf(i)] = v])
               = (Strings(message) \ old) \cup ({v} \ {NULL, EmptyString})
  <2> DEFINE m == [message EXCEPT ![NameOf(i)] = v]
  <2>1. Stores(message, NameOf(i), v, m)
    BY <1>3
  <2>2. message.data = message.key => Strings(message) = {}
    BY DEF Live, Answered, PointersOwn
  <2> DEFINE d == message.data
             q == message.key
             N == {NULL, EmptyString}
  <2>5. d = q => d \in N
    BY <2>2 DEF Strings
  <2>6. Strings(message) = {b \in {d, q} : b \notin N} /\ Strings(m) = {b \in {m.data, m.key} : b \notin N}
    BY Zenon DEF Strings
  <2> HIDE DEF m, i
  <2>3. CASE NameOf(i) = "data"
    <3>1. m.data = v /\ m.key = q /\ old = {d} \ N
      BY <1>2, <2>1, <2>3 DEF Stores, Pointer
    <3> HIDE DEF d, q, N, old
    <3>2. Strings(m) = (Strings(message) \ old) \cup ({v} \ N)
      BY <2>5, <2>6, <3>1
    <3> QED
      BY <3>2 DEF N, m
  <2>4. CASE NameOf(i) = "key"
    <3>1. m.key = v /\ m.data = d /\ old = {q} \ N
      BY <1>2, <2>1, <2>4 DEF Stores, Pointer
    <3> HIDE DEF d, q, N, old
    <3>2. Strings(m) = (Strings(message) \ old) \cup ({v} \ N)
      BY <2>5, <2>6, <3>1
    <3> QED
      BY <3>2 DEF N, m
  <2> QED
    BY <1>2, <2>3, <2>4 DEF m
<1>9. Bytes(k) \notin {NULL, EmptyString} /\ Bytes(k) \notin Strings(message)
  <2>1. k \notin 1 .. k - 1
    BY LenProperties DEF Shape
  <2> QED
    BY <1>7, <2>1, BlocksDiffer, Zenon
<1>10. CASE /\ Stored(k, Bytes(k))
            /\ heap' = (heap \ old) \cup {Bytes(k)}
            /\ misfreed' = (misfreed \/ ~ old \subseteq heap)
            /\ UNCHANGED pc
  <2> DEFINE m == [message EXCEPT ![NameOf(i)] = Bytes(k)]
  <2>1. message' = m
    BY <1>2, <1>10 DEF Stored
  <2>2. Strings(m) = (Strings(message) \ old) \cup {Bytes(k)}
    BY <1>6, <1>9, Zenon
  <2>3. Stores(message, NameOf(i), Bytes(k), m)
    BY <1>3
  <2>4. Unknown(k) = Unknown(k - 1)
    <3>1. parsed \in Nat /\ k - 1 = parsed
      BY LenProperties DEF Shape
    <3> QED
      BY <3>1, UnknownGrows
  <2>5. Owned(m, k) = Strings(m) \cup Unknown(k) \cup Array \cup {Rv}
    BY OwnedIs
  <2>6. heap' = Owned(m, k) \cup Slabs /\ ~ misfreed'
    <3> HIDE DEF m, old
    <3> QED
      BY <1>4, <1>5, <1>8, <1>10, <2>2, <2>4, <2>5, Zenon
  <2>7. PointersOwn(m, k)
    <3>1. \A b \in Strings(m) : \E j \in 1 .. k : ~ IsUnknown(j) /\ b = Bytes(j)
      <4>1. k \in 1 .. k /\ \A j \in 1 .. k - 1 : j \in 1 .. k
        BY LenProperties
      <4> HIDE DEF m
      <4>2. ASSUME NEW b \in Strings(m) PROVE b = Bytes(k) \/ b \in Strings(message)
        BY <2>2
      <4>3. ASSUME NEW b \in Strings(message)
            PROVE  \E j \in 1 .. k : ~ IsUnknown(j) /\ b = Bytes(j)
        BY <1>7, <4>1, Zenon
      <4> QED
        BY <4>1, <4>2, <4>3, Zenon
    <3>2. m.data # m.key
      <4>1. ASSUME m.data = m.key PROVE Bytes(k) \in {message.data, message.key}
        BY <1>2, <2>3, <4>1 DEF Stores
      <4> HIDE DEF m
      <4> QED
        BY <1>9, <4>1 DEF Strings
    <3> QED
      BY <3>1, <3>2 DEF PointersOwn
  <2>8. /\ (Owned(message, parsed) \cup Slabs)' = Owned(m, k) \cup Slabs
        /\ PointersOwn(message, parsed)' = PointersOwn(m, k)
    <3> HIDE DEF m
    <3> QED
      BY <2>1 DEF Owned, Slabs, PointersOwn, Strings, IsUnknown
  <2> QED
    BY <1>10, <2>6, <2>7, <2>8 DEF Live, Answered
<1>11. CASE pc' = "nomem" /\ ~ misfreed' /\ heap' = {}
  BY <1>11 DEF Live, Answered
<1>12. ASSUME NEW lost, lost = [message EXCEPT ![NameOf(i)] = NULL]
       PROVE  Owned(lost, k - 1) \cup Slabs = (Strings(message) \ old) \cup rest
  BY <1>6, <1>12, OwnedIs, Zenon
<1>13. StoreString(k) =>
         \/ /\ Stored(k, Bytes(k))
            /\ heap' = (heap \ old) \cup {Bytes(k)}
            /\ misfreed' = (misfreed \/ ~ old \subseteq heap)
            /\ UNCHANGED pc
         \/ \E lost :
              /\ lost = [message EXCEPT ![NameOf(i)] = NULL]
              /\ pc' = "nomem"
              /\ heap' = (heap \ old) \ (Owned(lost, k - 1) \cup Slabs)
              /\ misfreed' = (misfreed \/ ~ old \subseteq heap
                               \/ ~ Owned(lost, k - 1) \cup Slabs \subseteq heap \ old)
  BY <1>2, Zenon DEF StoreString
<1> HIDE DEF old, rest, i
<1>14. ASSUME pc' = "nomem", NEW lost, lost = [message EXCEPT ![NameOf(i)] = NULL],
              heap' = (heap \ old) \ (Owned(lost, k - 1) \cup Slabs),
              misfreed' = (misfreed \/ ~ old \subseteq heap
                            \/ ~ Owned(lost, k - 1) \cup Slabs \subseteq heap \ old)
       PROVE  ~ misfreed' /\ heap' = {}
  BY <1>4, <1>5, <1>8, <1>12, <1>14, Zenon
<1> QED
  BY <1>10, <1>11, <1>13, <1>14, Zenon

LEMMA ParseMemberKeepsLive ==
  ASSUME Shape, Live, ParseMember
  PROVE  Live'
<1> DEFINE k == parsed + 1
<1>1. /\ pc = "parse" /\ k \in 1 .. Len(scanned) /\ parsed \in Nat /\ k - 1 = parsed
      /\ parsed' = k /\ UNCHANGED << scanned, which_slab >>
  BY LenProperties DEF ParseMember, Shape
<1>2. ~ misfreed /\ heap = Owned(message, parsed) \cup Slabs /\ PointersOwn(message, parsed)
  BY <1>1 DEF Live, Answered
<1>3. ASSUME NEW m, message' = m, NEW n, parsed' = n
      PROVE  /\ (Owned(message, parsed) \cup Slabs)' = Owned(m, n) \cup Slabs
             /\ PointersOwn(message, parsed)' = PointersOwn(m, n)
  BY <1>1, <1>3 DEF Owned, Slabs, PointersOwn, Strings, IsUnknown
<1>4. \A why \in {"nomem", "refused"} : Cleanup(message, k - 1, why) => Live'
  <2> SUFFICES ASSUME NEW why \in {"nomem", "refused"}, Cleanup(message, k - 1, why)
               PROVE  Live'
    OBVIOUS
  <2>1. heap' = {} /\ ~ misfreed' /\ pc' = why
    BY <1>1, <1>2 DEF Cleanup, Free
  <2> QED
    BY <2>1 DEF Live, Answered
<1>5. /\ Unknown(k) = IF IsUnknown(k) THEN Unknown(parsed) \cup {Bytes(k)} ELSE Unknown(parsed)
      /\ Owned(message, k) = Strings(message) \cup Unknown(k) \cup Array \cup {Rv}
      /\ Owned(message, parsed) = Strings(message) \cup Unknown(parsed) \cup Array \cup {Rv}
  BY <1>1, UnknownGrows, OwnedIs
<1>6. \A j : j \in 1 .. parsed => j \in 1 .. k
  BY <1>1
<1>7. CASE IsUnknown(k)
  <2>1. KeepUnknown(k)
    BY <1>7 DEF ParseMember
  <2>2. CASE message' = message /\ heap' = heap \cup {Bytes(k)} /\ UNCHANGED << pc, misfreed >>
    <3>1. heap' = Owned(message, k) \cup Slabs
      <4> HIDE DEF k
      <4> QED
        BY <1>2, <1>5, <1>7, <2>2, Zenon
    <3>2. PointersOwn(message, k)
      <4> HIDE DEF k
      <4> QED
        BY <1>2, <1>6, Zenon DEF PointersOwn
    <3> HIDE DEF k
    <3>3. heap' = (Owned(message, parsed) \cup Slabs)' /\ PointersOwn(message, parsed)'
      BY <1>1, <1>3, <2>2, <3>1, <3>2
    <3> QED
      BY <1>1, <1>2, <2>2, <3>3, Zenon DEF Live, Answered
  <2> QED
    BY <1>4, <2>1, <2>2, Zenon DEF KeepUnknown, Allocate
<1>8. CASE ~ IsUnknown(k) /\ StoreString(k) /\ Field(k).type = "STRING"
  BY <1>1, <1>8, StoreStringKeepsLive DEF Field, TypeOf
<1>9. CASE ~ IsUnknown(k) /\ StoreNumber(k) /\ Field(k).type # "STRING"
  <2> DEFINE i == scanned[k].field
             m == message'
  <2>1. i \in 1 .. n_fields
    <3>1. scanned[k] \in Member
      BY <1>1 DEF Shape
    <3> QED
      BY <1>9, <3>1 DEF Member, IsUnknown, n_fields
  <2>2. /\ NameOf(i) \in {"opcode", "c_type", "data_size"}
        /\ Field(k).name = NameOf(i)
    BY <1>9, <2>1, FieldNames DEF Field, NameOf, TypeOf
  <2>3. PICK v : message' = [message EXCEPT ![NameOf(i)] = v]
    BY <1>9, <2>2 DEF StoreNumber, Stored
  <2>4. Stores(message, NameOf(i), v, [message EXCEPT ![NameOf(i)] = v])
    BY <2>2, StoreInto DEF Shape
  <2>5. m.data = message.data /\ m.key = message.key
    BY <2>2, <2>3, <2>4 DEF Stores
  <2> HIDE DEF m
  <2>6. Owned(m, k) = Owned(message, parsed)
    <3>1. Strings(m) = Strings(message)
      BY <2>5 DEF Strings
    <3>2. Owned(m, k) = Strings(m) \cup Unknown(k) \cup Array \cup {Rv}
      BY OwnedIs
    <3> QED
      BY <1>5, <1>9, <3>1, <3>2
  <2>7. PointersOwn(m, k)
    <3> HIDE DEF k
    <3> QED
      BY <1>2, <1>6, <2>5, Zenon DEF PointersOwn, Strings
  <2>8. (Owned(message, parsed) \cup Slabs)' = Owned(m, k) \cup Slabs /\ PointersOwn(message, parsed)'
    BY <1>1, <1>3, <2>7 DEF m
  <2>9. UNCHANGED << pc, heap, misfreed >>
    BY <1>9 DEF StoreNumber
  <2> QED
    BY <1>1, <1>2, <2>6, <2>8, <2>9, Zenon DEF Live, Answered
<1> HIDE DEF k
<1> QED
  BY <1>4, <1>7, <1>8, <1>9, Zenon DEF ParseMember, k

\* Every step keeps the live blocks.
LEMMA StepLive == Shape /\ Live /\ [UnpackNext]_unpackVars => Live'
<1> SUFFICES ASSUME Shape, Live, [UnpackNext]_unpackVars PROVE Live'
  OBVIOUS
<1>1. ASSUME NEW why \in {"refused", "nomem"}, pc = "scan", pc' = why, Free({Rv} \cup Slabs)
      PROVE  Live'
  <2>1. heap' = {} /\ ~ misfreed'
    BY <1>1 DEF Live, Answered, Free
  <2> QED
    BY <1>1, <2>1 DEF Live, Answered
<1>2. CASE Alloc
  <2>1. CASE pc' = "nomem" /\ UNCHANGED heap
    BY <1>2, <2>1 DEF Alloc, Live, Answered
  <2>2. CASE Allocate(Rv) /\ pc' = "scan"
    <3>1. heap' = {Rv} \cup Slabs'
      <4>1. Slabs = {}
        BY <1>2 DEF Alloc, Live, Answered, Slabs
      <4>2. Slabs' = Slabs
        BY <1>2 DEF Alloc, Slabs
      <4> QED
        BY <1>2, <2>2, <4>1, <4>2 DEF Alloc, Live, Answered, Allocate
    <3> QED
      BY <1>2, <2>2, <3>1 DEF Alloc, Live, Answered, Strings
  <2> QED
    BY <1>2, <2>1, <2>2 DEF Alloc
<1>3. CASE Scan
  <2>1. CASE Scans
    <3>1. heap' = {Rv} \cup Slabs'
      <4>1. CASE heap' = heap \cup {Slab(which_slab + 1)} /\ which_slab' = which_slab + 1
        <5>1. \A s : s \in 1 .. which_slab + 1 <=> s \in 1 .. which_slab \/ s = which_slab + 1
          BY DEF Shape
        <5>2. Slabs' = Slabs \cup {Slab(which_slab + 1)}
          BY <4>1, <5>1, Zenon DEF Slabs
        <5> QED
          BY <2>1, <4>1, <5>2 DEF Scans, Live, Answered
      <4>2. CASE UNCHANGED << which_slab, heap >>
        BY <2>1, <4>2 DEF Scans, Live, Answered, Slabs
      <4> QED
        BY <2>1, <4>1, <4>2 DEF Scans
    <3> QED
      BY <2>1, <3>1 DEF Scans, Live, Answered, Strings
  <2>2. CASE CleanupDuringScan("refused")
    BY <1>1, <1>3, <2>2, ScanOutcomes DEF CleanupDuringScan
  <2>3. CASE CleanupDuringScan("nomem")
    BY <1>1, <1>3, <2>3, ScanOutcomes DEF CleanupDuringScan
  <2> QED
    BY <1>3, <2>1, <2>2, <2>3, ScanOutcomes
<1>4. CASE AllocUnknown
  <2>1. /\ pc = "scan" /\ UNCHANGED << scanned, which_slab, parsed, message >>
        /\ parsed = 0 /\ Strings(message) = {} /\ heap = {Rv} \cup Slabs
    BY <1>4 DEF AllocUnknown, Live, Answered
  <2>2. CASE pc' = "parse" /\ heap' = heap \cup Array /\ UNCHANGED misfreed
    <3>1. Owned(message, parsed) = Array \cup {Rv}
      BY <2>1, OwnedIs, UnknownGrows
    <3>2. (Owned(message, parsed) \cup Slabs)' = Owned(message, parsed) \cup Slabs
      BY <2>1 DEF Owned, Slabs, IsUnknown
    <3>3. PointersOwn(message, parsed)'
      BY <2>1 DEF PointersOwn, Strings
    <3> QED
      BY <2>1, <2>2, <3>1, <3>2, <3>3 DEF Live, Answered
  <2>3. CASE pc' = "nomem" /\ Free({Rv} \cup Slabs)
    BY <1>1, <2>1, <2>3
  <2> QED
    BY <1>4, <2>2, <2>3 DEF AllocUnknown, Array, Allocate
<1>5. CASE ParseMember
  BY <1>5, ParseMemberKeepsLive
<1>6. CASE Return
  <2>1. /\ pc = "parse" /\ parsed = Len(scanned) /\ pc' = "done"
        /\ heap' = heap \ Slabs /\ misfreed' = (misfreed \/ ~ Slabs \subseteq heap)
        /\ UNCHANGED << scanned, message >>
    BY <1>6 DEF Return, Free
  <2>2. ~ misfreed /\ heap = Owned(message, parsed) \cup Slabs /\ PointersOwn(message, parsed)
    BY <2>1 DEF Live, Answered
  <2>3. Owned(message, parsed) \cap Slabs = {}
    BY <2>2, SlabsApart
  <2>4. heap' = Owned(message, parsed) /\ ~ misfreed'
    BY <2>1, <2>2, <2>3
  <2>5. Owned(message, Len(scanned))' = Owned(message, parsed)
    BY <2>1 DEF Owned, IsUnknown
  <2> QED
    BY <2>1, <2>4, <2>5 DEF Live, Answered
<1>7. CASE Invoke \/ Send
  <2>1. pc' \in {"invoked", "released", "unsent"}
    BY <1>7 DEF Invoke, Send
  <2> QED
    BY <2>1 DEF Live, Answered
<1>8. CASE UNCHANGED unpackVars
  BY <1>8 DEF unpackVars, Live, Answered, Slabs, Owned, PointersOwn, Strings, IsUnknown
<1> QED
  BY <1>2, <1>3, <1>4, <1>5, <1>6, <1>7, <1>8 DEF UnpackNext

\* At first nothing is live.
LEMMA InitLive == UnpackInit => Live
BY DEF UnpackInit, Live, Answered, Strings

\* And so in every behaviour.
LEMMA AlwaysLive == UnpackSpec => []Live
<1>1. UnpackInit => Shape /\ Live
  BY InitShape, InitLive
<1>2. Shape /\ Live /\ [UnpackNext]_unpackVars => (Shape /\ Live)'
  BY StepShape, StepLive
<1> QED
  BY <1>1, <1>2, PTL DEF UnpackSpec

(* Whichever member is wrong and whichever allocation fails, the error     *)
(* paths of protobuf_c_message_unpack free only what is allocated, once.   *)
THEOREM NothingMisfreed == UnpackSpec => []FreedOnce
<1>1. Live => FreedOnce
  BY DEF Live, FreedOnce
<1> QED
  BY <1>1, AlwaysLive, PTL

(* An unpack that returns NULL has freed all it allocated, and a message   *)
(* it returns owns every block that is left: free_unpacked loses none.     *)
THEOREM NothingLost == UnpackSpec => []NothingLeaks
<1>1. Live => NothingLeaks
  BY DEF Live, NothingLeaks
<1> QED
  BY <1>1, AlwaysLive, PTL

-----------------------------------------------------------------------------
(* Unpack: slabs and types.                                                *)

(* The sizes of the first n + 1 slabs.                                     *)
Slabbed(n, f) ==
  /\ f \in [0 .. n -> Nat] /\ f[0] = FirstSlab
  /\ \A i \in 1 .. n : f[i] = 2 * f[i - 1]

\* There are such sizes, for every n.
LEMMA SlabsExist ==
  ASSUME NEW n \in Nat
  PROVE  \E f : Slabbed(n, f)
<1> DEFINE Lacks == {m \in Nat : ~ \E f : Slabbed(m, f)}
<1>1. ASSUME Lacks # {} PROVE FALSE
  <2>1. PICK m \in Lacks : \A j \in Lacks : ~ (<<j, m>> \in OpToRel(<, Nat))
    BY <1>1, NatLessThanWellFounded, WFMin
  <2>0. m \in Nat /\ ~ \E f : Slabbed(m, f)
    BY <2>1, Zenon
  <2>2. \A j \in Nat : j < m => \E f : Slabbed(j, f)
    BY <2>0, <2>1 DEF OpToRel
  <2>3. CASE m = 0
    <3> DEFINE f == [i \in 0 .. 0 |-> FirstSlab]
    <3>1. Slabbed(0, f)
      BY UnpackAssumption DEF Slabbed
    <3> QED BY <2>0, <2>3, <3>1
  <2>4. CASE m # 0
    <3>1. m - 1 \in Nat /\ m - 1 < m
      BY <2>0, <2>4
    <3>2. PICK g : Slabbed(m - 1, g)
      BY <2>2, <3>1
    <3> DEFINE f == [i \in 0 .. m |-> IF i < m THEN g[i] ELSE 2 * g[m - 1]]
    <3>3. g \in [0 .. m - 1 -> Nat] /\ m \in Nat
      BY <2>0, <3>2 DEF Slabbed
    <3>4. \A i \in 0 .. m - 1 : f[i] = g[i] /\ g[i] \in Nat
      BY <3>3
    <3>5. f[m] = 2 * g[m - 1] /\ g[m - 1] \in Nat
      BY <3>1, <3>3
    <3>6. f \in [0 .. m -> Nat]
      <4>1. \A i \in 0 .. m : (IF i < m THEN g[i] ELSE 2 * g[m - 1]) \in Nat
        <5>1. \A i \in 0 .. m : i < m => i \in 0 .. m - 1 /\ g[i] \in Nat
          BY <3>3
        <5>2. 2 * g[m - 1] \in Nat
          BY <3>5
        <5> QED BY <5>1, <5>2
      <4> QED BY <4>1
    <3> HIDE DEF f
    <3>7. f[0] = FirstSlab
      BY <3>1, <3>2, <3>4 DEF Slabbed
    <3>8. ASSUME NEW i \in 1 .. m PROVE f[i] = 2 * f[i - 1]
      <4>1. CASE i = m
        BY <3>1, <3>4, <3>5, <4>1
      <4>2. CASE i # m
        <5>1. i \in 1 .. m - 1 /\ i \in 0 .. m - 1 /\ i - 1 \in 0 .. m - 1
          BY <3>3, <4>2
        <5>2. g[i] = 2 * g[i - 1]
          BY <3>2, <5>1 DEF Slabbed
        <5> QED BY <3>4, <5>1, <5>2
      <4> QED BY <4>1, <4>2
    <3>9. Slabbed(m, f)
      BY <3>6, <3>7, <3>8 DEF Slabbed
    <3> QED BY <2>0, <3>9
  <2> QED BY <2>3, <2>4
<1> QED BY <1>1

\* And only one family of them.
LEMMA SlabsAgree ==
  ASSUME NEW m \in Nat, NEW n \in Nat, m <= n, NEW f, NEW g, Slabbed(m, f), Slabbed(n, g)
  PROVE  \A i \in 0 .. m : f[i] = g[i]
<1> DEFINE Differ == {i \in 0 .. m : f[i] # g[i]}
<1>1. ASSUME Differ # {} PROVE FALSE
  <2>0. Differ \subseteq Nat
    OBVIOUS
  <2>1. PICK i \in Differ : \A j \in Differ : ~ (<<j, i>> \in OpToRel(<, Nat))
    BY <1>1, <2>0, NatLessThanWellFounded, WFMin
  <2>2. i \in 0 .. m /\ f[i] # g[i]
    BY <2>1
  <2>3. i # 0
    BY <2>2 DEF Slabbed
  <2>4. i - 1 \in 0 .. m /\ i - 1 < i /\ i \in 1 .. m /\ i \in 1 .. n /\ i \in Nat /\ i - 1 \in Nat
    BY <2>2, <2>3
  <2>5. f[i - 1] = g[i - 1]
    <3>1. i - 1 \notin Differ
      BY <2>1, <2>4 DEF OpToRel
    <3> QED BY <2>4, <3>1
  <2>6. f[i] = 2 * f[i - 1] /\ g[i] = 2 * g[i - 1]
    BY <2>4 DEF Slabbed
  <2> QED BY <2>2, <2>5, <2>6
<1> QED BY <1>1

(* The slabs double.                                                       *)
LEMMA SlabSizeIs ==
  /\ SlabSize[0] = FirstSlab
  /\ \A s \in Nat : SlabSize[s] \in Nat /\ SlabSize[s] >= 1 /\ SlabSize[s + 1] = 2 * SlabSize[s]
<1> DEFINE Begin(n) == CHOOSE f : Slabbed(n, f)
           g == [n \in Nat |-> Begin(n)[n]]
<1>1. ASSUME NEW n \in Nat PROVE Slabbed(n, Begin(n))
  BY SlabsExist
<1> HIDE DEF Begin
<1>2. g[0] = FirstSlab
  BY <1>1 DEF Slabbed
<1>3. ASSUME NEW n \in Nat PROVE g[n] \in Nat /\ g[n + 1] = 2 * g[n]
  <2>1. n + 1 \in Nat /\ n <= n + 1 /\ n \in 0 .. n /\ n + 1 \in 1 .. n + 1
    OBVIOUS
  <2>2. Slabbed(n, Begin(n)) /\ Slabbed(n + 1, Begin(n + 1))
    BY <1>1, <2>1
  <2>3. Begin(n)[n] = Begin(n + 1)[n]
    BY <2>1, <2>2, SlabsAgree
  <2>4. Begin(n + 1)[n + 1] = 2 * Begin(n + 1)[n + 1 - 1]
    BY <2>1, <2>2 DEF Slabbed
  <2>5. n + 1 - 1 = n
    OBVIOUS
  <2>6. Begin(n)[n] \in Nat
    BY <2>1, <2>2 DEF Slabbed
  <2> QED BY <2>1, <2>3, <2>4, <2>5, <2>6
<1>4. g = [n \in Nat |-> IF n = 0 THEN FirstSlab ELSE 2 * g[n - 1]]
  <2>1. ASSUME NEW n \in Nat PROVE g[n] = IF n = 0 THEN FirstSlab ELSE 2 * g[n - 1]
    <3>1. CASE n = 0
      BY <1>2, <3>1
    <3>2. CASE n # 0
      <4>1. n - 1 \in Nat /\ n - 1 + 1 = n
        BY <3>2
      <4>2. g[n - 1 + 1] = 2 * g[n - 1]
        BY <1>3, <4>1
      <4> QED BY <3>2, <4>1, <4>2
    <3> QED BY <3>1, <3>2
  <2>2. g = [n \in Nat |-> g[n]]
    OBVIOUS
  <2> HIDE DEF g
  <2> QED BY <2>1, <2>2
<1> HIDE DEF g
<1>5. SlabSize = [n \in Nat |-> IF n = 0 THEN FirstSlab ELSE 2 * SlabSize[n - 1]]
  BY <1>4 DEF SlabSize
<1>6. SlabSize[0] = FirstSlab
  BY <1>5
<1>7. ASSUME NEW s \in Nat PROVE SlabSize[s + 1] = 2 * SlabSize[s]
  <2>1. s + 1 \in Nat /\ s + 1 # 0 /\ s + 1 - 1 = s
    OBVIOUS
  <2> QED BY <1>5, <2>1
<1> DEFINE Wrong == {s \in Nat : ~ (SlabSize[s] \in Nat /\ SlabSize[s] >= 1)}
<1>8. ASSUME Wrong # {} PROVE FALSE
  <2>1. PICK s \in Wrong : \A j \in Wrong : ~ (<<j, s>> \in OpToRel(<, Nat))
    BY <1>8, NatLessThanWellFounded, WFMin
  <2>0. s \in Nat /\ ~ (SlabSize[s] \in Nat /\ SlabSize[s] >= 1)
    BY <2>1, Zenon
  <2>2. s # 0
    BY <1>6, <2>0, UnpackAssumption
  <2>3. s - 1 \in Nat /\ s - 1 < s /\ s - 1 + 1 = s
    BY <2>0, <2>2
  <2>4. SlabSize[s - 1] \in Nat /\ SlabSize[s - 1] >= 1
    <3>1. s - 1 \notin Wrong
      BY <2>0, <2>1, <2>3 DEF OpToRel
    <3> QED BY <2>3, <3>1, Zenon
  <2>5. SlabSize[s - 1 + 1] = 2 * SlabSize[s - 1]
    BY <1>7, <2>3
  <2> QED BY <2>0, <2>3, <2>4, <2>5
<1> QED BY <1>6, <1>7, <1>8

\* Digits are below their base.
LEMMA DigitBelow ==
  ASSUME NEW d \in Seq(Byte), NEW n \in 0 .. Len(d), NEW i \in 1 .. 5
  PROVE  Digit(d, n, i) \in 0 .. 127
<1>1. CASE i <= n
  <2>1. i \in 1 .. Len(d)
    BY <1>1, LenProperties
  <2> DEFINE x == d[i]
  <2>2. x \in Int
    BY <2>1, ByteIs
  <2> HIDE DEF x
  <2>3. x % 128 \in 0 .. 127
    BY <2>2, SMT
  <2> QED BY <1>1, <2>3 DEF Digit, x
<1>2. CASE ~ (i <= n)
  BY <1>2 DEF Digit
<1> QED BY <1>1, <1>2

\* Parsed numbers are words.
LEMMA ParseIsWord ==
  ASSUME NEW d \in Seq(Byte), NEW n \in 0 .. Len(d)
  PROVE  parse_uint32(d, n) \in Int32
<1> DEFINE a1 == Digit(d, n, 1)
           a2 == Digit(d, n, 2)
           a3 == Digit(d, n, 3)
           a4 == Digit(d, n, 4)
           top == IF n > 4 THEN d[5] % 16 ELSE 0
<1>1. a1 \in 0 .. 127 /\ a2 \in 0 .. 127 /\ a3 \in 0 .. 127 /\ a4 \in 0 .. 127
  BY DigitBelow
<1>2. top \in 0 .. 15
  <2>1. CASE n > 4
    <3>1. d[5] \in Int
      BY <2>1, LenProperties, ByteIs
    <3> QED BY <2>1, <3>1, SMT
  <2>2. CASE ~ (n > 4)
    BY <2>2, SMT
  <2> QED BY <2>1, <2>2
<1>3. parse_uint32(d, n) = a1 + 128 * a2 + 16384 * a3 + 2097152 * a4
                             + 268435456 * (IF top < 8 THEN top ELSE top - 16)
  BY SMT DEF parse_uint32
<1> HIDE DEF a1, a2, a3, a4, top
<1> QED BY <1>1, <1>2, <1>3 DEF Int32, Half

\* So are unzigzagged ones.
LEMMA UnzigzagIsWord ==
  ASSUME NEW w \in Int32
  PROVE  unzigzag32(w) \in Int32
<1>1. w \in Int /\ -2147483648 <= w /\ w <= 2147483647
  BY DEF Int32, Half
<1>2. w >= 0 => w \div 2 \in Int /\ 0 <= w \div 2 /\ w \div 2 <= 1073741823
  BY <1>1, SMT
<1>3. w < 0 => w \div 2 \in Int /\ -1073741824 <= w \div 2 /\ w \div 2 < 0
  BY <1>1, SMT
<1> DEFINE q == w \div 2
           r == w % 2
<1>4. unzigzag32(w) = LET shifted == IF w >= 0 THEN q ELSE q + Half + Half
                      IN  IF r = 0 THEN shifted ELSE -shifted - 1
  BY DEF unzigzag32
<1> HIDE DEF q, r
<1> QED BY <1>1, <1>2, <1>3, <1>4 DEF q, Int32, Half

(* The number in a member, whatever its bytes.                             *)
LEMMA NumberIs ==
  ASSUME NEW i \in 1 .. n_fields, FieldAt(i).type # "STRING", NEW d \in Seq(Byte)
  PROVE  member_value(FieldAt(i), d, 0) \in Int32
<1>1. Len(d) \in 0 .. Len(d)
  BY LenProperties
<1>2. parse_uint32(d, Len(d)) \in Int32
  BY <1>1, ParseIsWord
<1>3. FieldAt(i).type = "ENUM" \/ FieldAt(i).type = "SINT32" \/ FieldAt(i).type = "STRING"
  <2>1. i = 1 \/ i = 2 \/ i = 3 \/ i = 4 \/ i = 5
    BY DEF n_fields
  <2> QED BY <2>1 DEF FieldAt, message_t__field_descriptors
<1>4. CASE FieldAt(i).type = "ENUM"
  <2>1. member_value(FieldAt(i), d, 0) = parse_uint32(d, Len(d))
    BY <1>4 DEF member_value, parse_int32
  <2> QED BY <1>2, <2>1
<1>5. CASE FieldAt(i).type = "SINT32"
  <2>1. member_value(FieldAt(i), d, 0) = unzigzag32(parse_uint32(d, Len(d)))
    BY <1>5 DEF member_value
  <2> QED BY <1>2, <2>1, UnzigzagIsWord
<1> QED BY <1>3, <1>4, <1>5

(* The length of a string lies inside the member.                          *)
LEMMA PrefixInside ==
  ASSUME NEW d \in Seq(Byte), scan_length_prefixed_data(d) # 0
  PROVE  VarintLength(d, 5) <= scan_length_prefixed_data(d)
<1> DEFINE hdr_len == VarintLength(d, 5)
           val == parse_uint32(d, hdr_len)
<1>1. hdr_len \in 0 .. Len(d) /\ hdr_len <= 5
  BY VarintLengthIs
<1>2. ~ (hdr_len = 0 \/ (hdr_len = 5 /\ d[5] >= 8) \/ val > Len(d) - hdr_len)
  BY DEF scan_length_prefixed_data
<1>3. scan_length_prefixed_data(d) = hdr_len + val
  BY <1>2 DEF scan_length_prefixed_data
<1>4. val \in Nat
  BY <1>1, <1>2, ParseUint32Is
<1> HIDE DEF hdr_len, val
<1> QED BY <1>1, <1>3, <1>4 DEF hdr_len

\* The member that is found is as long as its prefix says.
LEMMA FoundPrefix ==
  ASSUME rem \in Seq(Byte), rem # << >>, FoundLength # 0
  PROVE  Found.pref <= Len(Found.data)
<1>1. FoundHead.used \in 0 .. Len(rem) /\ Len(rem) \in Nat /\ FoundHead.wire \in Int
  BY HeadIs, LenProperties DEF FoundHead
<1>2. FoundBody \in Seq(Byte)
  <2> DEFINE u == FoundHead.used + 1
  <2>1. u \in Int /\ 1 <= u
    BY <1>1
  <2> HIDE DEF u
  <2>2. \A x \in u .. Len(rem) : rem[x] \in Byte
    BY <1>1, <2>1
  <2>3. SubSeq(rem, u, Len(rem)) \in Seq(Byte)
    BY <1>1, <2>1, <2>2, SubSeqProperties
  <2> QED BY <2>3 DEF FoundBody, u
<1>3. FoundLength \in 1 .. Len(FoundBody) /\ Len(FoundBody) \in Nat
  BY <1>2, MemberLengthIs, LenProperties DEF FoundLength
<1>4. Len(SubSeq(FoundBody, 1, FoundLength)) = FoundLength
  BY <1>2, <1>3, BytesTaken
<1>5. CASE FoundHead.wire = WIRE_TYPE_LENGTH_PREFIXED
  <2>1. FoundLength = scan_length_prefixed_data(FoundBody)
    <3>1. FoundHead.wire = 2
      BY <1>5 DEF WIRE_TYPE_LENGTH_PREFIXED
    <3> QED
      BY <3>1, SMT DEF FoundLength, member_length, WIRE_TYPE_VARINT, WIRE_TYPE_64BIT,
           WIRE_TYPE_LENGTH_PREFIXED, WIRE_TYPE_32BIT
  <2>2. VarintLength(FoundBody, 5) <= FoundLength
    BY <1>2, <1>3, <2>1, PrefixInside
  <2> QED BY <1>4, <1>5, <2>2 DEF Found
<1>6. CASE FoundHead.wire # WIRE_TYPE_LENGTH_PREFIXED
  BY <1>3, <1>4, <1>6 DEF Found
<1> QED BY <1>5, <1>6

\* A length in front of a string is no longer than the member.
Prefixed == \A k \in 1 .. Len(scanned) : scanned[k].pref <= Len(scanned[k].data)
\* The members fill the slabs in order: each slab but the last is full.
Slabbing ==
  /\ in_slab_index \in 0 .. SlabSize[which_slab]
  /\ Len(scanned) = SlabSize[which_slab] - FirstSlab + in_slab_index
\* Numbers fit in 32 bits.
Numbered == message.opcode \in Int32 /\ message.c_type \in Int32 /\ message.data_size \in Int32
\* What a string field may point to.
Copies == {NULL, EmptyString} \cup {Bytes(k) : k \in 1 .. Len(scanned)}
\* Both string fields do.
Pointing == message.data \in Copies /\ message.key \in Copies
\* Every block the function can ask for.
AllBlocks == {Rv, UnknownFields, FoundData} \cup Slabs \cup {Bytes(k) : k \in 1 .. Len(scanned)}
\* No others are live.
Heaped == heap \subseteq AllBlocks
\* What is sent are messages, and the place is one of the function.
Named == /\ sent.first \in Messages /\ sent.second \in Messages
         /\ pc \in {"alloc", "scan", "parse", "done", "invoked", "released", "unsent", "refused", "nomem"}

\* The type invariant, with what it rests on.
Typed == /\ Shape /\ Named /\ Prefixed /\ Slabbing /\ Numbered /\ Pointing /\ Heaped

\* It is the type invariant.
LEMMA TypedIs == Typed => UnpackTypeOK
<1> SUFFICES ASSUME Typed PROVE UnpackTypeOK
  OBVIOUS
<1>1. \A i \in 1 .. Len(rem) : rem[i] \in Byte
  BY ElementOfSeq DEF Typed, Shape
<1>2. \A k \in 1 .. Len(scanned) : scanned[k].field \in 0 .. n_fields
  <2>1. \A k \in 1 .. Len(scanned) : scanned[k] \in Member
    BY ElementOfSeq DEF Typed, Shape
  <2> QED BY <2>1 DEF Member
<1>3. {message.data, message.key} \subseteq
        {NULL, EmptyString} \cup {Bytes(k) : k \in 1 .. Len(scanned)}
  BY Zenon DEF Typed, Pointing, Copies
<1>4. heap \subseteq {Rv, UnknownFields, FoundData} \cup Slabs \cup {Bytes(k) : k \in 1 .. Len(scanned)}
  BY Zenon DEF Typed, Heaped, AllBlocks
<1>5. parsed \in 0 .. Len(scanned)
  BY Zenon DEF Typed, Shape
<1> QED BY <1>1, <1>2, <1>3, <1>4, <1>5, Zenon
           DEF Typed, UnpackTypeOK, Named, Prefixed, Slabbing, Numbered

\* It holds at first.
LEMMA TypedStarts == UnpackInit => Typed
<1> SUFFICES ASSUME UnpackInit PROVE Typed
  OBVIOUS
<1>1. Shape
  BY InitShape
<1>2. Named
  <2>1. PICK m1 \in Messages, m2 \in Messages :
          \E i, j : sent = [first |-> m1, second |-> m2, from |-> i, to |-> j]
    BY Zenon DEF UnpackInit
  <2> QED BY <2>1 DEF UnpackInit, Named
<1>3. Len(scanned) = 0
  BY DEF UnpackInit
<1>4. Prefixed
  BY <1>3 DEF Prefixed
<1>5. Slabbing
  BY <1>3, SlabSizeIs, UnpackAssumption DEF Slabbing, UnpackInit
<1>6. Numbered
  BY DEF UnpackInit, Numbered, Int32, Half
<1>7. Pointing
  BY DEF UnpackInit, Pointing, Copies
<1>8. Heaped
  BY DEF UnpackInit, Heaped
<1> QED BY <1>1, <1>2, <1>4, <1>5, <1>6, <1>7, <1>8 DEF Typed

(* The slab that Scan fills.                                               *)
Fills ==
  \/ /\ in_slab_index = SlabSize[which_slab]
     /\ which_slab' = which_slab + 1 /\ in_slab_index' = 1
     /\ heap' = heap \cup {Slab(which_slab + 1)}
  \/ /\ in_slab_index # SlabSize[which_slab]
     /\ in_slab_index' = in_slab_index + 1 /\ UNCHANGED << which_slab, heap >>

\* A scan that goes on appends what was found and fills the slab.
LEMMA ScanAppends ==
  ASSUME Scan
  PROVE  /\ pc = "scan" /\ rem # << >>
         /\ \/ FoundHead.used # 0 /\ FoundLength # 0 /\ Scans /\ Fills
            \/ (FoundHead.used = 0 \/ FoundLength = 0) /\ CleanupDuringScan("refused")
            \/ CleanupDuringScan("nomem")
<1> DEFINE full == in_slab_index = SlabSize[which_slab]
<1>1. /\ pc = "scan" /\ rem # << >>
      /\ IF FoundHead.used = 0 \/ FoundLength = 0 THEN CleanupDuringScan("refused")
         ELSE \/ /\ IF full
                    THEN /\ heap' = heap \cup {Slab(which_slab + 1)}
                         /\ which_slab' = which_slab + 1
                         /\ in_slab_index' = 1
                    ELSE /\ in_slab_index' = in_slab_index + 1
                         /\ UNCHANGED << which_slab, heap >>
                 /\ scanned' = Append(scanned, Found)
                 /\ rem' = SubSeq(FoundBody, FoundLength + 1, Len(FoundBody))
                 /\ UNCHANGED << sent, pc, parsed, message, misfreed >>
              \/ full /\ CleanupDuringScan("nomem")
  BY Zenon DEF Scan, Allocate, FoundHead, FoundBody, FoundLength, Found
<1>2. CASE FoundHead.used = 0 \/ FoundLength = 0
  BY <1>1, <1>2
<1>3. CASE ~ (FoundHead.used = 0 \/ FoundLength = 0) /\ ~ CleanupDuringScan("nomem")
  <2>1. CASE full
    BY <1>1, <1>3, <2>1, Zenon DEF Scans, Fills
  <2>2. CASE ~ full
    BY <1>1, <1>3, <2>2, Zenon DEF Scans, Fills
  <2> QED BY <2>1, <2>2
<1> QED BY <1>1, <1>2, <1>3, Zenon

\* Every step keeps the types: Scan,
LEMMA ScanKeepsTyped ==
  ASSUME Typed, rem # << >>, FoundLength # 0, Scans, Fills, Shape'
  PROVE  Typed'
<1>1. /\ rem \in Seq(Byte) /\ scanned \in Seq(Member) /\ which_slab \in Nat
      /\ Found \in Member /\ Found.pref <= Len(Found.data)
  BY ScanFinds, FoundPrefix DEF Typed, Shape
<1>2. /\ Len(scanned') = Len(scanned) + 1 /\ Len(scanned) \in Nat
      /\ \A k \in 1 .. Len(scanned) : scanned'[k] = scanned[k]
      /\ scanned'[Len(scanned) + 1] = Found
  BY <1>1, AppendProperties, LenProperties DEF Scans
<1>3. Prefixed'
  <2>1. ASSUME NEW k \in 1 .. Len(scanned')
        PROVE  scanned'[k].pref <= Len(scanned'[k].data)
    <3>1. CASE k = Len(scanned) + 1
      BY <1>1, <1>2, <3>1
    <3>2. CASE k # Len(scanned) + 1
      <4>1. k \in 1 .. Len(scanned)
        BY <1>2, <3>2
      <4> QED BY <1>2, <4>1 DEF Typed, Prefixed
    <3> QED BY <3>1, <3>2
  <2> QED BY <2>1 DEF Prefixed
<1>4. Slabbing'
  <2>1. /\ SlabSize[which_slab] \in Nat /\ SlabSize[which_slab] >= 1
        /\ SlabSize[which_slab + 1] = 2 * SlabSize[which_slab] /\ FirstSlab \in Nat
    BY <1>1, SlabSizeIs, UnpackAssumption
  <2>2. /\ in_slab_index \in 0 .. SlabSize[which_slab]
        /\ Len(scanned) = SlabSize[which_slab] - FirstSlab + in_slab_index
    BY DEF Typed, Slabbing
  <2>3. CASE /\ in_slab_index = SlabSize[which_slab]
             /\ which_slab' = which_slab + 1 /\ in_slab_index' = 1
    <3> DEFINE z == SlabSize[which_slab]
    <3>1. SlabSize[which_slab'] = 2 * z
      BY <2>1, <2>3
    <3> HIDE DEF z
    <3> QED BY <1>2, <2>1, <2>2, <2>3, <3>1 DEF Slabbing, z
  <2>4. CASE /\ in_slab_index # SlabSize[which_slab]
             /\ in_slab_index' = in_slab_index + 1 /\ UNCHANGED which_slab
    <3> DEFINE z == SlabSize[which_slab]
    <3>1. SlabSize[which_slab'] = z
      BY <2>4
    <3> HIDE DEF z
    <3> QED BY <1>2, <2>1, <2>2, <2>4, <3>1 DEF Slabbing, z
  <2> QED BY <2>3, <2>4 DEF Fills
<1>5. \A k \in 1 .. Len(scanned) : k \in 1 .. Len(scanned')
  BY <1>2
<1>6. Pointing'
  <2>1. Copies \subseteq Copies'
    BY <1>5 DEF Copies, Bytes, NULL, EmptyString
  <2>2. message' = message
    BY DEF Scans
  <2> QED BY <2>1, <2>2 DEF Typed, Pointing
<1>7. Heaped'
  <2>1. which_slab' = which_slab \/ which_slab' = which_slab + 1
    BY DEF Fills
  <2>2. Slabs \subseteq Slabs'
    BY <1>1, <2>1 DEF Slabs, Slab
  <2>3. {Bytes(k) : k \in 1 .. Len(scanned)} \subseteq {Bytes(k) : k \in 1 .. Len(scanned')}
    BY <1>5
  <2>4. heap' \subseteq heap \cup Slabs'
    <3>1. CASE heap' = heap
      BY <3>1
    <3>2. CASE which_slab' = which_slab + 1 /\ heap' = heap \cup {Slab(which_slab + 1)}
      <4>1. which_slab + 1 \in 1 .. which_slab'
        BY <1>1, <3>2
      <4>2. Slab(which_slab + 1) \in Slabs'
        BY <4>1 DEF Slabs, Slab
      <4> QED BY <3>2, <4>2
    <3> QED BY <3>1, <3>2 DEF Fills
  <2>5. heap \subseteq AllBlocks
    BY DEF Typed, Heaped
  <2>6. AllBlocks \subseteq AllBlocks'
    BY <2>2, <2>3 DEF AllBlocks, Rv, UnknownFields, FoundData, Bytes
  <2>7. Slabs' \subseteq AllBlocks'
    BY DEF AllBlocks
  <2> QED BY <2>4, <2>5, <2>6, <2>7 DEF Heaped
<1>8. Named' /\ Numbered'
  BY DEF Typed, Named, Numbered, Scans
<1> QED BY <1>3, <1>4, <1>6, <1>7, <1>8 DEF Typed

(* What the steps but Scan and the stores leave alone.                     *)
LEMMA RestKeepsTyped ==
  ASSUME Typed, Shape', UNCHANGED << sent, scanned, which_slab, in_slab_index >>, Named',
         Numbered', Pointing', heap' \subseteq heap \cup {Rv, UnknownFields, FoundData} \/
           \E k \in 1 .. Len(scanned) : heap' \subseteq heap \cup {Bytes(k)}
  PROVE  Typed'
<1>1. Prefixed' /\ Slabbing'
  BY DEF Typed, Prefixed, Slabbing
<1>2. AllBlocks' = AllBlocks
  BY DEF AllBlocks, Slabs, Bytes, Slab, Rv, UnknownFields, FoundData
<1>3. heap \subseteq AllBlocks /\ {Rv, UnknownFields, FoundData} \subseteq AllBlocks
  BY DEF Typed, Heaped, AllBlocks
<1>4. \A k \in 1 .. Len(scanned) : {Bytes(k)} \subseteq AllBlocks
  BY DEF AllBlocks
<1>5. Heaped'
  BY <1>2, <1>3, <1>4 DEF Heaped
<1> QED BY <1>1, <1>5 DEF Typed

(* A message after a store.                                                *)
LEMMA StoreTyped ==
  ASSUME NEW i \in 1 .. n_fields, IsMessage(message), Numbered, Pointing,
         NEW v, IF TypeOf(i) = "STRING" THEN v \in Copies ELSE v \in Int32,
         message' = [message EXCEPT ![NameOf(i)] = v], UNCHANGED scanned
  PROVE  Numbered' /\ Pointing'
<1>1. DOMAIN message = {"opcode", "c_type", "data_size", "data", "key"}
  BY DEF IsMessage
<1>2. \A f \in DOMAIN message : message'[f] = IF f = NameOf(i) THEN v ELSE message[f]
  OBVIOUS
<1>3. Copies' = Copies
  BY DEF Copies, Bytes, NULL, EmptyString
<1>4. TypeOf(i) = "STRING" <=> NameOf(i) \in {"data", "key"}
  BY FieldNames
<1>5. /\ message'.opcode = IF "opcode" = NameOf(i) THEN v ELSE message.opcode
      /\ message'.c_type = IF "c_type" = NameOf(i) THEN v ELSE message.c_type
      /\ message'.data_size = IF "data_size" = NameOf(i) THEN v ELSE message.data_size
      /\ message'.data = IF "data" = NameOf(i) THEN v ELSE message.data
      /\ message'.key = IF "key" = NameOf(i) THEN v ELSE message.key
  BY <1>1, <1>2
<1>6. CASE TypeOf(i) = "STRING"
  <2>1. v \in Copies /\ NameOf(i) \in {"data", "key"}
    BY <1>4, <1>6
  <2>2. Numbered'
    BY <1>5, <2>1 DEF Numbered
  <2>3. message'.data \in Copies /\ message'.key \in Copies
    BY <1>5, <2>1 DEF Pointing
  <2> QED BY <1>3, <2>2, <2>3 DEF Pointing
<1>7. CASE TypeOf(i) # "STRING"
  <2>1. v \in Int32 /\ NameOf(i) \notin {"data", "key"}
    BY <1>4, <1>7
  <2>2. Numbered'
    BY <1>5, <2>1 DEF Numbered
  <2>3. message'.data = message.data /\ message'.key = message.key
    BY <1>5, <2>1
  <2> QED BY <1>3, <2>2, <2>3 DEF Pointing
<1> QED BY <1>6, <1>7

\* ParseMember,
LEMMA ParseKeepsTyped ==
  ASSUME Typed, ParseMember, Shape'
  PROVE  Typed'
<1> DEFINE k == parsed + 1
           i == scanned[k].field
<1>1. k \in 1 .. Len(scanned) /\ k \in Nat
  BY LenProperties DEF ParseMember, Typed, Shape
<1>2. scanned[k] \in Member
  BY <1>1 DEF Typed, Shape
<1>3. i \in 0 .. n_fields /\ scanned[k].data \in Seq(Byte)
  BY <1>2 DEF Member
<1>4. UNCHANGED << sent, scanned, which_slab, in_slab_index >>
  BY DEF ParseMember
<1>5. Copies' = Copies
  BY <1>4 DEF Copies, Bytes, NULL, EmptyString
<1>6. message' = message => Numbered' /\ Pointing'
  BY <1>5 DEF Typed, Numbered, Pointing
<1>7. ~ IsUnknown(k) => /\ i \in 1 .. n_fields /\ Field(k).name = NameOf(i)
                        /\ Field(k).type = TypeOf(i) /\ Field(k) = FieldAt(i)
  BY <1>3 DEF IsUnknown, n_fields, Field, NameOf, TypeOf, FieldAt
<1>8. IsMessage(message) /\ Numbered /\ Pointing /\ Named
  BY DEF Typed, Shape
<1>9. pc' = pc \/ pc' = "nomem" \/ pc' = "refused" => Named'
  BY <1>4, <1>8 DEF Named
<1> HIDE DEF k, i
<1>10. CASE IsUnknown(k) /\ KeepUnknown(k)
  <2>1. message' = message
    BY <1>10 DEF KeepUnknown
  <2>2. CASE Allocate(Bytes(k)) /\ UNCHANGED pc
    <3>1. heap' \subseteq heap \cup {Bytes(k)}
      BY <2>2 DEF Allocate
    <3> QED BY <1>1, <1>4, <1>6, <1>9, <2>1, <2>2, <3>1, RestKeepsTyped
  <2>3. CASE Cleanup(message, k - 1, "nomem")
    <3>1. heap' \subseteq heap /\ pc' = "nomem"
      BY <2>3 DEF Cleanup, Free
    <3> QED BY <1>4, <1>6, <1>9, <2>1, <3>1, RestKeepsTyped
  <2> QED BY <1>10, <2>2, <2>3, Zenon DEF KeepUnknown
<1>11. CASE Cleanup(message, k - 1, "refused") /\ UNCHANGED message
  <2>1. heap' \subseteq heap /\ pc' = "refused"
    BY <1>11 DEF Cleanup, Free
  <2> QED BY <1>4, <1>6, <1>9, <1>11, <2>1, RestKeepsTyped
<1>12. CASE ~ IsUnknown(k) /\ Field(k).type = "STRING" /\ StoreString(k)
  <2>1. TypeOf(i) = "STRING" /\ i \in 1 .. n_fields
    BY <1>7, <1>12
  <2>2. CASE Stored(k, Bytes(k)) /\ pc' = pc /\ heap' \subseteq heap \cup {Bytes(k)}
    <3>1. Bytes(k) \in Copies
      BY <1>1 DEF Copies
    <3>2. message' = [message EXCEPT ![NameOf(i)] = Bytes(k)]
      BY <1>7, <1>12, <2>2 DEF Stored
    <3>3. Numbered' /\ Pointing'
      BY <1>4, <1>8, <2>1, <3>1, <3>2, StoreTyped
    <3> QED BY <1>1, <1>4, <1>9, <2>2, <3>3, RestKeepsTyped
  <2>3. CASE /\ message' = [message EXCEPT ![Field(k).name] = NULL] /\ pc' = "nomem"
             /\ heap' \subseteq heap
    <3>1. NULL \in Copies
      BY DEF Copies
    <3>2. message' = [message EXCEPT ![NameOf(i)] = NULL]
      BY <1>7, <1>12, <2>3
    <3>3. Numbered' /\ Pointing'
      BY <1>4, <1>8, <2>1, <3>1, <3>2, StoreTyped
    <3> QED BY <1>4, <1>9, <2>3, <3>3, RestKeepsTyped
  <2>4. \/ Stored(k, Bytes(k)) /\ pc' = pc /\ heap' \subseteq heap \cup {Bytes(k)}
        \/ /\ message' = [message EXCEPT ![Field(k).name] = NULL] /\ pc' = "nomem"
           /\ heap' \subseteq heap
    BY <1>12 DEF StoreString
  <2> QED BY <2>2, <2>3, <2>4
<1>13. CASE ~ IsUnknown(k) /\ Field(k).type # "STRING" /\ StoreNumber(k)
  <2> DEFINE v == member_value(Field(k), scanned[k].data, 0)
  <2>1. TypeOf(i) # "STRING" /\ i \in 1 .. n_fields
    BY <1>7, <1>13
  <2>2. v \in Int32
    BY <1>3, <1>7, <1>13, NumberIs DEF k, i
  <2>3. message' = [message EXCEPT ![NameOf(i)] = v] /\ heap' = heap /\ pc' = pc
    BY <1>7, <1>13 DEF StoreNumber, Stored
  <2> HIDE DEF v
  <2>4. Numbered' /\ Pointing'
    BY <1>4, <1>8, <2>1, <2>2, <2>3, StoreTyped
  <2> QED BY <1>4, <1>9, <2>3, <2>4, RestKeepsTyped
<1> QED BY <1>10, <1>11, <1>12, <1>13, Zenon DEF ParseMember, k

\* and all steps.
LEMMA StepTyped ==
  ASSUME Typed, [UnpackNext]_unpackVars
  PROVE  Typed'
<1>1. Shape'
  BY StepShape DEF Typed
<1>2. CASE Scan
  <2>1. CASE FoundLength # 0 /\ Scans /\ Fills
    BY <1>1, <1>2, <2>1, ScanAppends, ScanKeepsTyped
  <2>2. CASE CleanupDuringScan("refused") \/ CleanupDuringScan("nomem")
    <3>1. /\ UNCHANGED << sent, scanned, which_slab, in_slab_index, message >>
          /\ heap' \subseteq heap /\ pc' \in {"refused", "nomem"}
      BY <2>2 DEF CleanupDuringScan, Free
    <3>2. Named' /\ Numbered' /\ Pointing'
      BY <3>1 DEF Typed, Named, Numbered, Pointing, Copies, Bytes, NULL, EmptyString
    <3> QED BY <1>1, <3>1, <3>2, RestKeepsTyped
  <2> QED BY <1>2, <2>1, <2>2, ScanAppends
<1>3. CASE ParseMember
  BY <1>1, <1>3, ParseKeepsTyped
<1>4. CASE Alloc \/ AllocUnknown \/ Return \/ Invoke \/ Send \/ UNCHANGED unpackVars
  <2>1. /\ UNCHANGED << sent, scanned, which_slab, in_slab_index, message >>
        /\ heap' \subseteq heap \cup {Rv, UnknownFields, FoundData}
        /\ pc' = pc \/ pc' \in {"scan", "nomem", "parse", "done", "invoked", "released", "unsent"}
    <3>1. CASE Invoke
      <4>1. /\ UNCHANGED << sent, scanned, which_slab, in_slab_index, message >>
            /\ pc' = "invoked"
        BY <3>1 DEF Invoke
      <4>2. heap' \subseteq heap \cup {FoundData}
        BY <3>1 DEF Invoke
      <4> QED BY <4>1, <4>2
    <3>2. CASE Alloc \/ AllocUnknown \/ Return \/ Send \/ UNCHANGED unpackVars
      BY <3>2 DEF Alloc, AllocUnknown, Return, Send, unpackVars, Free, Allocate
    <3> QED BY <1>4, <3>1, <3>2
  <2>2. Named' /\ Numbered' /\ Pointing'
    BY <2>1 DEF Typed, Named, Numbered, Pointing, Copies, Bytes, NULL, EmptyString
  <2> QED BY <1>1, <2>1, <2>2, RestKeepsTyped
<1> QED BY <1>2, <1>3, <1>4 DEF UnpackNext

-----------------------------------------------------------------------------
(* What is parsed from the code of a value.                                *)

(* Where VarintLength finds the end.                                       *)
LEMMA EndIsLength ==
  ASSUME NEW d \in Seq(Byte), NEW n, EndsVarint(d, n), NEW most \in {5, 10}, n <= most
  PROVE  VarintLength(d, most) = n
<1> DEFINE ends == {i \in 1 .. Len(d) : i <= most /\ d[i] < 128}
<1>1. n \in ends
  BY DEF EndsVarint
<1>2. ASSUME NEW i \in ends PROVE n <= i
  <2>1. i \in 1 .. Len(d) /\ d[i] < 128
    OBVIOUS
  <2>2. CASE i < n
    <3>1. i \in 1 .. n - 1
      BY <2>1, <2>2 DEF EndsVarint
    <3> QED BY <2>1, <3>1, ByteIs DEF EndsVarint
  <2> QED BY <2>1, <2>2 DEF EndsVarint
<1>3. \A i \in ends : (\A j \in ends : i <= j) => i <= n /\ i \in Int
  BY <1>1
<1>4. n \in Int
  BY DEF EndsVarint
<1>5. VarintLength(d, most) = CHOOSE i \in ends : \A j \in ends : i <= j
  BY <1>1 DEF VarintLength
<1> HIDE DEF ends
<1>6. \A i \in ends : (\A j \in ends : i <= j) => i = n
  BY <1>2, <1>3, <1>4
<1> QED BY <1>1, <1>2, <1>5, <1>6

\* A varint without its end has no length.
LEMMA NoEndNoLength ==
  ASSUME NEW d \in Seq(Byte), \A i \in 1 .. Len(d) : d[i] >= 128, NEW most
  PROVE  VarintLength(d, most) = 0
<1> DEFINE ends == {i \in 1 .. Len(d) : i <= most /\ d[i] < 128}
<1>1. ASSUME NEW i \in ends PROVE FALSE
  <2>1. i \in 1 .. Len(d) /\ d[i] < 128 /\ d[i] >= 128
    OBVIOUS
  <2> QED BY <2>1, ByteIs
<1>2. ends = {}
  BY <1>1
<1> QED BY <1>2 DEF VarintLength

(* A varint of which b has all or a part.                                  *)
LEMMA PieceOfVarint ==
  ASSUME NEW b \in Seq(Byte), NEW c \in Seq(Byte), EndsVarint(c, Len(c)),
         \A k \in 1 .. Len(b) : k <= Len(c) => b[k] = c[k], NEW most \in {5, 10}, Len(c) <= most
  PROVE  VarintLength(b, most) = IF Len(b) >= Len(c) THEN Len(c) ELSE 0
<1>1. Len(b) \in Nat /\ Len(c) \in Nat
  BY LenProperties
<1>2. CASE Len(b) >= Len(c)
  <2>1. EndsVarint(b, Len(c))
    <3>1. Len(c) \in 1 .. Len(b) /\ b[Len(c)] = c[Len(c)]
      BY <1>1, <1>2 DEF EndsVarint
    <3>2. \A i \in 1 .. Len(c) - 1 : b[i] = c[i]
      BY <1>1, <1>2
    <3> QED BY <3>1, <3>2 DEF EndsVarint
  <2> QED BY <1>2, <2>1, EndIsLength
<1>3. CASE ~ (Len(b) >= Len(c))
  <2>1. \A i \in 1 .. Len(b) : i \in 1 .. Len(c) - 1 /\ b[i] = c[i]
    BY <1>1, <1>3
  <2>2. \A i \in 1 .. Len(b) : b[i] >= 128
    BY <2>1 DEF EndsVarint
  <2> QED BY <1>3, <2>2, NoEndNoLength
<1> QED BY <1>2, <1>3

\* The wire type of a field.
WireOf(i) == IF i \in 4 .. 5 THEN 2 ELSE 0

(* The first byte of a field is its head.                                  *)
LEMMA HeadOfTag ==
  ASSUME NEW d \in Seq(Byte), d # << >>, NEW i \in 1 .. 5, d[1] = TagByte(i)
  PROVE  /\ parse_tag_and_wiretype(d).used = 1
         /\ parse_tag_and_wiretype(d).wire = WireOf(i)
         /\ parse_tag_and_wiretype(d).tag = i
<1>1. Len(d) \in Nat /\ 1 \in 1 .. Len(d)
  BY LenProperties, EmptySeq
<1>2. i = 1 \/ i = 2 \/ i = 3 \/ i = 4 \/ i = 5
  OBVIOUS
<1>3. /\ TagByte(i) \in Int /\ 8 <= TagByte(i) /\ TagByte(i) < 128
      /\ TagByte(i) % 8 = WireOf(i) /\ (TagByte(i) % 128) \div 8 = i
  <2>1. CASE i = 1
    <3>1. TagByte(i) = 8 /\ WireOf(i) = 0
      BY <2>1 DEF TagByte, WireOf
    <3> QED BY <2>1, <3>1
  <2>2. CASE i = 2
    <3>1. TagByte(i) = 16 /\ WireOf(i) = 0
      BY <2>2 DEF TagByte, WireOf
    <3> QED BY <2>2, <3>1
  <2>3. CASE i = 3
    <3>1. TagByte(i) = 24 /\ WireOf(i) = 0
      BY <2>3 DEF TagByte, WireOf
    <3> QED BY <2>3, <3>1
  <2>4. CASE i = 4
    <3>1. TagByte(i) = 34 /\ WireOf(i) = 2
      BY <2>4 DEF TagByte, WireOf
    <3> QED BY <2>4, <3>1
  <2>5. CASE i = 5
    <3>1. TagByte(i) = 42 /\ WireOf(i) = 2
      BY <2>5 DEF TagByte, WireOf
    <3> QED BY <2>5, <3>1
  <2> QED BY <1>2, <2>1, <2>2, <2>3, <2>4, <2>5
<1>4. EndsVarint(d, 1)
  <2>1. d[1] < 128
    BY <1>3
  <2>2. 1 .. 1 - 1 = {}
    OBVIOUS
  <2> QED BY <1>1, <2>1, <2>2 DEF EndsVarint
<1>5. VarintLength(d, 5) = 1
  BY <1>4, EndIsLength
<1>6. /\ Digit(d, 1, 2) = 0 /\ Digit(d, 1, 3) = 0 /\ Digit(d, 1, 4) = 0 /\ Digit(d, 1, 5) = 0
  BY DEF Digit
<1> DEFINE t == TagByte(i)
           n == VarintLength(d, 5)
           tag == (t % 128) \div 8 + 16 * Digit(d, n, 2) + 2048 * Digit(d, n, 3)
               + 262144 * Digit(d, n, 4) + 33554432 * (Digit(d, n, 5) % 32)
<1>7. parse_tag_and_wiretype(d) =
        [used |-> IF t < 8 THEN 0 ELSE n, wire |-> t % 8,
         tag |-> IF n = 5 /\ d[5] >= 32 THEN 0 ELSE tag]
  BY DEF parse_tag_and_wiretype
<1>8. tag = (t % 128) \div 8
  BY <1>3, <1>5, <1>6
<1> HIDE DEF t, n, tag
<1> QED BY <1>3, <1>5, <1>7, <1>8 DEF t, n

-----------------------------------------------------------------------------
(* What parse_uint32 reads of the first n bytes.                           *)
LEMMA SameBytesSameWord ==
  ASSUME NEW b, NEW c, NEW n \in 0 .. 5, \A k \in 1 .. n : b[k] = c[k]
  PROVE  parse_uint32(b, n) = parse_uint32(c, n)
<1>1. ASSUME NEW k \in 1 .. 5 PROVE Digit(b, n, k) = Digit(c, n, k)
  <2>1. CASE k <= n
    <3>1. b[k] = c[k]
      BY <2>1
    <3> QED BY <2>1, <3>1 DEF Digit
  <2>2. CASE ~ (k <= n)
    BY <2>2 DEF Digit
  <2> QED BY <2>1, <2>2
<1>2. /\ Digit(b, n, 1) = Digit(c, n, 1) /\ Digit(b, n, 2) = Digit(c, n, 2)
      /\ Digit(b, n, 3) = Digit(c, n, 3) /\ Digit(b, n, 4) = Digit(c, n, 4)
  BY <1>1
<1> DEFINE top1 == IF n > 4 THEN b[5] % 16 ELSE 0
           top2 == IF n > 4 THEN c[5] % 16 ELSE 0
<1>3. top1 = top2
  <2>1. CASE n > 4
    <3>1. 5 \in 1 .. n
      BY <2>1
    <3>2. b[5] = c[5]
      BY <3>1
    <3> QED BY <3>2
  <2>2. CASE ~ (n > 4)
    BY <2>2
  <2> QED BY <2>1, <2>2
<1>4. parse_uint32(b, n) = Digit(b, n, 1) + 128 * Digit(b, n, 2) + 16384 * Digit(b, n, 3)
        + 2097152 * Digit(b, n, 4) + 268435456 * (IF top1 < 8 THEN top1 ELSE top1 - 16)
  BY SMT DEF parse_uint32
<1>5. parse_uint32(c, n) = Digit(c, n, 1) + 128 * Digit(c, n, 2) + 16384 * Digit(c, n, 3)
        + 2097152 * Digit(c, n, 4) + 268435456 * (IF top2 < 8 THEN top2 ELSE top2 - 16)
  BY SMT DEF parse_uint32
<1> HIDE DEF top1, top2
<1> QED BY <1>2, <1>3, <1>4, <1>5

(* A number of fewer than 2^31 bytes: its fifth byte, if any, is below 8.  *)
LEMMA LengthsAreShort ==
  ASSUME NEW n \in Int32, n >= 0, Len(uint32_pack(n)) = 5
  PROVE  uint32_pack(n)[5] < 8
<1> DEFINE p == uint32_pack(n)
<1>1. Len(p) = uint32_size(n) /\ IsVarintOf(p, uint32_size(n), n, W1(n), W2(n), W3(n), W4(n))
  BY Uint32PackIs
<1>2. p[5] = W4(n)
  <2>1. uint32_size(n) = 5
    BY <1>1
  <2>2. IsVarintOf(p, 5, n, W1(n), W2(n), W3(n), W4(n))
    BY <1>1, <2>1
  <2> HIDE DEF p
  <2> QED BY <2>2 DEF IsVarintOf
<1>3. n \in Int /\ n < 2147483648
  BY DEF Int32, Half
<1>4. W1(n) \in Int /\ 0 <= W1(n) /\ W1(n) < 33554432 /\ 128 * W1(n) <= n
  BY <1>3, SplitWord DEF W1
<1>5. W2(n) \in Int /\ 0 <= W2(n) /\ W2(n) < 33554432 /\ 128 * W2(n) <= W1(n)
  BY <1>4, SplitNat DEF W2
<1>6. W3(n) \in Int /\ 0 <= W3(n) /\ W3(n) < 33554432 /\ 128 * W3(n) <= W2(n)
  BY <1>5, SplitNat DEF W3
<1>7. W4(n) \in Int /\ 0 <= W4(n) /\ 128 * W4(n) <= W3(n)
  BY <1>6, SplitNat DEF W4
<1>8. W4(n) < 8
  BY <1>3, <1>4, <1>5, <1>6, <1>7
<1> QED BY <1>2, <1>8

(* What is left of a string that begins with its length.                   *)
LEMMA PieceOfString ==
  ASSUME NEW v \in Text, NEW b \in Seq(Byte),
         \A k \in 1 .. Len(b) : k <= Len(string_pack(v)) => b[k] = string_pack(v)[k]
  PROVE  /\ scan_length_prefixed_data(b) =
              IF Len(b) >= Len(string_pack(v)) THEN Len(string_pack(v)) ELSE 0
         /\ Len(b) >= Len(string_pack(v)) => VarintLength(b, 5) = Len(uint32_pack(Len(v)))
<1> DEFINE n == Len(v)
           p == uint32_pack(n)
           h == Len(p)
           c == string_pack(v)
           hdr_len == VarintLength(b, 5)
           val == parse_uint32(b, hdr_len)
<1>1. n \in Int32 /\ n \in Nat /\ v \in Seq(Byte)
  BY TextIsBytes, LenProperties DEF Text
<1> HIDE DEF n
<1>2. p \in Seq(Byte) /\ EndsVarint(p, h) /\ h \in 1 .. 5
  BY <1>1, Uint32Ends, Uint32PackIs
<1>3. c = p \o v
  BY DEF string_pack, n
<1>4. /\ Len(c) = h + n /\ \A k \in 1 .. h : c[k] = p[k]
  BY <1>1, <1>2, <1>3, ConcatBegins DEF n
<1>5. Len(b) \in Nat
  BY LenProperties
<1>6. \A k \in 1 .. Len(b) : k <= Len(c) => b[k] = c[k]
  OBVIOUS
<1> HIDE DEF c
<1>7. \A k \in 1 .. Len(b) : k <= h => b[k] = p[k]
  BY <1>1, <1>2, <1>4, <1>6
<1>8. hdr_len = IF Len(b) >= h THEN h ELSE 0
  <2>1. h <= 5 /\ 5 \in {5, 10}
    <3> HIDE DEF h
    <3>1. h <= 5
      BY <1>2
    <3>2. 5 \in {5, 10}
      OBVIOUS
    <3> QED BY <3>1, <3>2
  <2> QED BY <1>2, <1>7, <2>1, PieceOfVarint, Zenon
<1>9. CASE ~ (Len(b) >= h)
  <2>1. hdr_len = 0 /\ ~ (Len(b) >= Len(c))
    BY <1>1, <1>2, <1>4, <1>5, <1>8, <1>9
  <2>2. scan_length_prefixed_data(b) = 0
    BY <2>1 DEF scan_length_prefixed_data
  <2> QED BY <2>1, <2>2 DEF c
<1>10. CASE Len(b) >= h
  <2>1. hdr_len = h
    BY <1>8, <1>10
  <2>2. \A k \in 1 .. h : b[k] = p[k]
    BY <1>2, <1>5, <1>7, <1>10
  <2>3. val = n
    <3>1. parse_uint32(b, h) = parse_uint32(p, h)
      BY <1>2, <2>2, SameBytesSameWord
    <3>2. parse_uint32(p, h) = n
      BY <1>1, ParseOfPack
    <3> QED BY <2>1, <3>1, <3>2
  <2>4. ~ (hdr_len = 5 /\ b[5] >= 8)
    <3>1. CASE h = 5
      <4>1. p[5] < 8
        BY <1>1, <3>1, LengthsAreShort
      <4>2. b[5] = p[5] /\ 5 \in 1 .. Len(p)
        BY <2>2, <3>1
      <4>3. p[5] \in Int
        BY <1>2, <4>2, ByteIs
      <4> HIDE DEF p
      <4> QED BY <4>1, <4>2, <4>3
    <3>2. CASE h # 5
      BY <2>1, <3>2
    <3> QED BY <3>1, <3>2
  <2>5. scan_length_prefixed_data(b) =
          IF hdr_len = 0 \/ (hdr_len = 5 /\ b[5] >= 8) \/ val > Len(b) - hdr_len
          THEN 0 ELSE hdr_len + val
    BY DEF scan_length_prefixed_data
  <2> HIDE DEF hdr_len, val, h, p
  <2>6. scan_length_prefixed_data(b) = IF n > Len(b) - h THEN 0 ELSE h + n
    BY <1>2, <2>1, <2>3, <2>4, <2>5
  <2>7. scan_length_prefixed_data(b) = IF Len(b) >= Len(c) THEN Len(c) ELSE 0
    BY <1>1, <1>2, <1>4, <1>5, <2>6
  <2> QED BY <2>1, <2>7 DEF c, hdr_len, h, p, n
<1> QED BY <1>9, <1>10

(* A member of a field: all of it, or nothing when a byte is missing.      *)
LEMMA PieceOfField ==
  ASSUME NEW i \in 1 .. n_fields, NEW m \in MessageT, NEW b \in Seq(Byte), NEW rest \in Seq(Byte),
         NEW x \in Seq(Byte), b \o rest = Code(i, ValueOf(m, i)) \o x
  PROVE  /\ Len(Code(i, ValueOf(m, i))) >= 1
         /\ member_length(b, WireOf(i)) =
              IF Len(b) >= Len(Code(i, ValueOf(m, i))) THEN Len(Code(i, ValueOf(m, i))) ELSE 0
         /\ i \in 4 .. 5 /\ Len(b) >= Len(Code(i, ValueOf(m, i))) =>
              VarintLength(b, 5) = Len(uint32_pack(Len(ValueOf(m, i))))
<1> DEFINE v == ValueOf(m, i)
           c == Code(i, v)
<1>0. i \in Int /\ 1 <= i /\ i <= 5
  BY DEF n_fields
<1>1. c \in Seq(Byte)
  BY FieldPackIs
<1>2. Len(b) \in Nat /\ Len(c) \in Nat
  BY <1>1, LenProperties
<1>3. ASSUME NEW k \in 1 .. Len(b), k <= Len(c) PROVE b[k] = c[k]
  <2>1. (b \o rest)[k] = b[k]
    BY ConcatBegins
  <2>2. k \in 1 .. Len(c)
    BY <1>2, <1>3
  <2>3. (c \o x)[k] = c[k]
    BY <1>1, <2>2, ConcatBegins
  <2> QED BY <2>1, <2>3
<1>4. CASE i \in 1 .. 3
  <2>1. EndsVarint(c, Len(c)) /\ Len(c) <= 10
    <3>1. CASE i \in 1 .. 2
      <4>1. v \in Int32 /\ c = int32_pack(v)
        BY <3>1, FieldIs DEF Code
      <4>2. int32_size(v) <= 10
        BY <4>1 DEF int32_size, uint32_size
      <4> QED BY <4>1, <4>2, Int32Ends, Int32PackLen
    <3>2. CASE i = 3
      <4>1. v \in Int32 /\ c = uint32_pack(zigzag32(v))
        BY <3>2, FieldIs DEF Code, sint32_pack
      <4>2. zigzag32(v) \in Int32
        BY <4>1, UnzigzagZigzag
      <4>3. EndsVarint(c, Len(c)) /\ Len(c) \in 1 .. 5
        BY <4>1, <4>2, Uint32Ends, Zenon
      <4>4. Len(c) <= 10
        <5> DEFINE l == Len(c)
        <5>1. l \in 1 .. 5
          BY <4>3
        <5> HIDE DEF l
        <5>2. l <= 10
          BY <5>1
        <5> QED BY <5>2 DEF l
      <4> QED BY <4>3, <4>4, Zenon
    <3> QED BY <1>0, <1>4, <3>1, <3>2
  <2>2. WireOf(i) = 0
    BY <1>4 DEF WireOf
  <2>3. member_length(b, 0) = VarintLength(b, 10)
    BY SMT DEF member_length, WIRE_TYPE_VARINT, WIRE_TYPE_64BIT, WIRE_TYPE_LENGTH_PREFIXED,
               WIRE_TYPE_32BIT
  <2> HIDE DEF c
  <2>4. VarintLength(b, 10) = IF Len(b) >= Len(c) THEN Len(c) ELSE 0
    BY <1>1, <1>3, <2>1, PieceOfVarint
  <2>5. Len(c) >= 1
    BY <1>2, <2>1 DEF EndsVarint
  <2>6. i \notin 4 .. 5
    BY <1>4
  <2> QED BY <2>2, <2>3, <2>4, <2>5, <2>6 DEF c
<1>5. CASE i \in 4 .. 5
  <2>1. v \in Text /\ c = string_pack(v)
    BY <1>5, FieldIs DEF Code
  <2>2. WireOf(i) = 2
    BY <1>5 DEF WireOf
  <2>3. member_length(b, 2) = scan_length_prefixed_data(b)
    BY SMT DEF member_length, WIRE_TYPE_VARINT, WIRE_TYPE_64BIT, WIRE_TYPE_LENGTH_PREFIXED,
               WIRE_TYPE_32BIT
  <2>4. /\ scan_length_prefixed_data(b) = IF Len(b) >= Len(c) THEN Len(c) ELSE 0
        /\ Len(b) >= Len(c) => VarintLength(b, 5) = Len(uint32_pack(Len(v)))
    BY <1>3, <2>1, PieceOfString
  <2>5. Len(c) >= 1
    <3>1. Len(v) \in Int32 /\ Len(v) \in Nat
      BY <2>1, TextIsBytes, LenProperties DEF Text
    <3>2. Len(uint32_pack(Len(v))) \in 1 .. 5
      BY <3>1, Uint32Ends
    <3>3. Len(c) = uint32_size(Len(v)) + Len(v) /\ Len(uint32_pack(Len(v))) = uint32_size(Len(v))
      BY <2>1, <3>1, StringPackLen, Uint32PackIs
    <3> QED BY <3>1, <3>2, <3>3
  <2> QED BY <2>2, <2>3, <2>4, <2>5
<1> QED BY <1>0, <1>4, <1>5

(* A word, its lowest digit and the others.                                *)
LEMMA DigitAndRest ==
  ASSUME NEW x \in Int, NEW y, y = x \div 128
  PROVE  /\ Low7(x) \in Int /\ 0 <= Low7(x) /\ Low7(x) < 128 /\ x = 128 * y + Low7(x)
         /\ y \in Int
<1>1. /\ Low7(x) \in Int /\ 0 <= Low7(x) /\ Low7(x) < 128 /\ x = 128 * (x \div 128) + Low7(x)
      /\ x \div 128 \in Int
  BY Low7Is, Zenon
<1> QED BY <1>1, Zenon

(* The ten bytes of a negative number hold its 32 bits.                    *)
LEMMA ParseOfNegative ==
  ASSUME NEW v \in Int32, v < 0
  PROVE  parse_uint32(int32_pack(v), 10) = v
<1> DEFINE p == int32_pack(v)
           x1 == v \div 128
           x2 == v \div 16384
           x3 == v \div 2097152
           x4 == v \div 268435456
<1>1. /\ p[1] = Low7(v) + 128 /\ p[2] = Low7(x1) + 128 /\ p[3] = Low7(x2) + 128
      /\ p[4] = Low7(x3) + 128 /\ p[5] = Low7(x4) + 128
  BY NegativePackIs
<1>2. v \in Int /\ -2147483648 <= v
  BY DEF Int32, Half
<1>3. x1 \in Int /\ x2 = x1 \div 128 /\ x3 = x2 \div 128 /\ x4 = x3 \div 128
  BY <1>2, Shifts
<1> HIDE DEF p, x1, x2, x3, x4
<1>4. x1 = v \div 128 /\ v \in Int
  BY <1>2 DEF x1
<1>5. /\ Low7(v) \in Int /\ 0 <= Low7(v) /\ Low7(v) < 128 /\ v = 128 * x1 + Low7(v)
  BY <1>4, DigitAndRest, Zenon
<1>6. /\ Low7(x1) \in Int /\ 0 <= Low7(x1) /\ Low7(x1) < 128 /\ x1 = 128 * x2 + Low7(x1)
      /\ x2 \in Int
  BY <1>3, DigitAndRest, Zenon
<1>7. /\ Low7(x2) \in Int /\ 0 <= Low7(x2) /\ Low7(x2) < 128 /\ x2 = 128 * x3 + Low7(x2)
      /\ x3 \in Int
  <2>1. x2 \in Int /\ x3 = x2 \div 128
    BY <1>3, <1>6, Zenon
  <2> QED BY <2>1, DigitAndRest, Zenon
<1>8. /\ Low7(x3) \in Int /\ 0 <= Low7(x3) /\ Low7(x3) < 128 /\ x3 = 128 * x4 + Low7(x3)
      /\ x4 \in Int
  <2>1. x3 \in Int /\ x4 = x3 \div 128
    BY <1>3, <1>7, Zenon
  <2> QED BY <2>1, DigitAndRest, Zenon
<1>9. -8 <= x4 /\ x4 < 0
  BY <1>2, <1>5, <1>6, <1>7, <1>8
<1>10. Low7(x4) = x4 + 128
  <2>1. x4 % 128 = x4 + 128
    BY <1>8, <1>9, SMT
  <2> QED BY <2>1 DEF Low7
<1>11. /\ Digit(p, 10, 1) = Low7(v) /\ Digit(p, 10, 2) = Low7(x1)
       /\ Digit(p, 10, 3) = Low7(x2) /\ Digit(p, 10, 4) = Low7(x3)
  <2>1. /\ (Low7(v) + 128) % 128 = Low7(v) /\ (Low7(x1) + 128) % 128 = Low7(x1)
        /\ (Low7(x2) + 128) % 128 = Low7(x2) /\ (Low7(x3) + 128) % 128 = Low7(x3)
    BY <1>5, <1>6, <1>7, <1>8, WithoutTop
  <2> QED BY <1>1, <2>1 DEF Digit
<1>12. p[5] % 16 = x4 + 16
  <2>1. p[5] = x4 + 256
    BY <1>1, <1>8, <1>10
  <2>2. (x4 + 256) % 16 = x4 + 16
    BY <1>8, <1>9, SMT
  <2> QED BY <2>1, <2>2
<1>13. parse_uint32(p, 10) = Digit(p, 10, 1) + 128 * Digit(p, 10, 2) + 16384 * Digit(p, 10, 3)
         + 2097152 * Digit(p, 10, 4) + 268435456 * x4
  <2> DEFINE top == p[5] % 16
  <2>1. top = x4 + 16
    BY <1>12
  <2>2. parse_uint32(p, 10) = Digit(p, 10, 1) + 128 * Digit(p, 10, 2) + 16384 * Digit(p, 10, 3)
         + 2097152 * Digit(p, 10, 4) + 268435456 * (IF top < 8 THEN top ELSE top - 16)
    BY SMT DEF parse_uint32
  <2> HIDE DEF top
  <2>3. (IF top < 8 THEN top ELSE top - 16) = x4
    BY <1>8, <1>9, <2>1
  <2> QED BY <2>2, <2>3
<1>14. parse_uint32(p, 10) = v
  BY <1>5, <1>6, <1>7, <1>8, <1>11, <1>13
<1> QED BY <1>14 DEF p

(* A string without a NUL is read as it is.                                *)
LEMMA WholeCString ==
  ASSUME NEW v \in Text
  PROVE  CString(v) = v
<1> DEFINE nuls == {i \in 1 .. Len(v) : v[i] = 0}
<1>1. v \in Seq(1 .. 255)
  BY DEF Text
<1>2. ASSUME NEW i \in nuls PROVE FALSE
  <2>1. i \in 1 .. Len(v) /\ v[i] = 0
    OBVIOUS
  <2>2. v[i] \in 1 .. 255
    BY <1>1, <2>1, ElementOfSeq
  <2>3. 0 \in 1 .. 255
    BY <2>1, <2>2
  <2> QED BY <2>3
<1>3. nuls = {}
  BY <1>2
<1> QED BY <1>3 DEF CString

(* Bytes of the length in front of a string.                               *)
PrefOf(i, v) == IF i \in 4 .. 5 THEN Len(uint32_pack(Len(v))) ELSE 0

\* What is parsed from the code of a value is the value.
LEMMA ValueOfCode ==
  ASSUME NEW i \in 1 .. n_fields, NEW m \in MessageT
  PROVE  member_value(FieldAt(i), Code(i, ValueOf(m, i)), PrefOf(i, ValueOf(m, i))) = ValueOf(m, i)
<1> DEFINE v == ValueOf(m, i)
           c == Code(i, v)
<1>0. i \in Int /\ 1 <= i /\ i <= 5
  BY DEF n_fields
<1>1. CASE i \in 1 .. 2
  <2>1. v \in Int32 /\ FieldAt(i).type = "ENUM" /\ c = int32_pack(v)
    BY <1>1, FieldIs DEF Code
  <2>2. Len(c) = int32_size(v)
    BY <2>1, Int32PackLen
  <2>3. member_value(FieldAt(i), c, PrefOf(i, v)) = parse_uint32(c, Len(c))
    <3>1. FieldAt(i).type = "ENUM" /\ FieldAt(i).type # "SINT32"
      BY <2>1
    <3> HIDE DEF c, v
    <3> QED BY <3>1 DEF member_value, parse_int32
  <2>4. CASE v < 0
    <3>1. Len(c) = 10
      BY <2>2, <2>4 DEF int32_size
    <3>2. parse_uint32(int32_pack(v), 10) = v
      BY <2>1, <2>4, ParseOfNegative
    <3> QED BY <2>1, <2>3, <3>1, <3>2, Zenon
  <2>5. CASE ~ (v < 0)
    <3>1. c = uint32_pack(v)
      BY <2>1, <2>5 DEF int32_pack
    <3>2. parse_uint32(uint32_pack(v), Len(uint32_pack(v))) = v
      BY <2>1, ParseOfPack
    <3> QED BY <2>3, <3>1, <3>2, Zenon
  <2> QED BY <2>4, <2>5
<1>2. CASE i = 3
  <2>1. v \in Int32 /\ FieldAt(i).type = "SINT32" /\ c = uint32_pack(zigzag32(v))
    BY <1>2, FieldIs DEF Code, sint32_pack
  <2>2. zigzag32(v) \in Int32 /\ unzigzag32(zigzag32(v)) = v
    BY <2>1, UnzigzagZigzag
  <2>3. parse_uint32(c, Len(c)) = zigzag32(v)
    BY <2>1, <2>2, ParseOfPack
  <2>4. member_value(FieldAt(i), c, PrefOf(i, v)) = unzigzag32(parse_uint32(c, Len(c)))
    <3> HIDE DEF c, v
    <3> QED BY <2>1 DEF member_value
  <2> QED BY <2>2, <2>3, <2>4
<1>3. CASE i \in 4 .. 5
  <2> DEFINE p == uint32_pack(Len(v))
  <2>1. v \in Text /\ FieldAt(i).type = "STRING" /\ c = p \o v
    BY <1>3, FieldIs DEF Code, string_pack
  <2>2. v \in Seq(Byte) /\ p \in Seq(Byte) /\ PrefOf(i, v) = Len(p)
    <3>1. Len(v) \in Int32
      BY <2>1 DEF Text
    <3> QED BY <1>3, <2>1, <3>1, TextIsBytes, Uint32PackIs DEF PrefOf
  <2>3. SubSeq(c, Len(p) + 1, Len(c)) = v
    BY <2>1, <2>2, FrontAndRest
  <2>4. member_value(FieldAt(i), c, Len(p)) = CString(SubSeq(c, Len(p) + 1, Len(c)))
    <3>1. FieldAt(i).type = "STRING" /\ FieldAt(i).type # "ENUM" /\ FieldAt(i).type # "SINT32"
      BY <2>1
    <3> HIDE DEF c, v, p
    <3> QED BY <3>1 DEF member_value
  <2> QED BY <2>1, <2>2, <2>3, <2>4, WholeCString
<1> QED BY <1>0, <1>1, <1>2, <1>3

(* A sequence is its beginning and the rest.                               *)
LEMMA SplitAt ==
  ASSUME NEW b \in Seq(Byte), NEW n \in 1 .. Len(b)
  PROVE  SubSeq(b, 1, n) \o SubSeq(b, n + 1, Len(b)) = b
<1> DEFINE f == SubSeq(b, 1, n)
           r == SubSeq(b, n + 1, Len(b))
<1>1. f \in Seq(Byte) /\ Len(f) = n /\ r \in Seq(Byte)
  BY BytesTaken
<1>2. Len(b) \in Nat /\ n \in Nat /\ n <= Len(b)
  BY LenProperties
<1>3. \A i \in 1 .. Len(b) : b[i] \in Byte
  BY ElementOfSeq
<1>4. \A i \in 1 .. n : f[i] = b[i]
  <2>1. \A i \in 1 .. n : b[i] \in Byte
    BY <1>2, <1>3
  <2>2. \A i \in 1 .. n - 1 + 1 : f[i] = b[1 + i - 1]
    BY <1>2, <2>1, SubSeqProperties
  <2> QED BY <1>2, <2>2
<1>5. Len(r) = Len(b) - n /\ \A i \in 1 .. Len(b) - n : r[i] = b[n + i]
  <2>1. \A i \in n + 1 .. Len(b) : b[i] \in Byte
    BY <1>2, <1>3
  <2>2. /\ Len(r) = Len(b) - (n + 1) + 1
        /\ \A i \in 1 .. Len(b) - (n + 1) + 1 : r[i] = b[(n + 1) + i - 1]
    BY <1>2, <2>1, SubSeqProperties
  <2> QED BY <1>2, <2>2
<1> HIDE DEF f, r
<1>6. /\ f \o r \in Seq(Byte) /\ Len(f \o r) = Len(b)
      /\ \A i \in 1 .. n : (f \o r)[i] = b[i]
      /\ \A i \in 1 .. Len(b) - n : (f \o r)[n + i] = b[n + i]
  <2>1. /\ f \o r \in Seq(Byte) /\ Len(f \o r) = Len(f) + Len(r)
        /\ \A i \in 1 .. Len(f) : (f \o r)[i] = f[i]
        /\ \A i \in 1 .. Len(r) : (f \o r)[Len(f) + i] = r[i]
    BY <1>1, ConcatBegins
  <2> DEFINE s == f \o r
  <2> HIDE DEF s
  <2>2. s \in Seq(Byte) /\ Len(s) = Len(b)
    BY <1>1, <1>2, <1>5, <2>1 DEF s
  <2>3. \A i \in 1 .. n : s[i] = b[i]
    BY <1>1, <1>4, <2>1 DEF s
  <2>4. \A i \in 1 .. Len(b) - n : s[n + i] = b[n + i]
    BY <1>1, <1>5, <2>1 DEF s
  <2> QED BY <2>2, <2>3, <2>4 DEF s
<1>7. ASSUME NEW i \in 1 .. Len(b) PROVE (f \o r)[i] = b[i]
  <2>1. CASE i <= n
    BY <1>2, <1>6, <2>1
  <2>2. CASE ~ (i <= n)
    <3>1. i - n \in 1 .. Len(b) - n /\ i = n + (i - n)
      BY <1>2, <2>2
    <3> QED BY <1>6, <3>1
  <2> QED BY <2>1, <2>2
<1>8. f \o r = b
  BY <1>6, <1>7, SeqEqual
<1> QED BY <1>8 DEF f, r

(* Taking c off the front of what begins with it.                          *)
LEMMA TakenOff ==
  ASSUME NEW b \in Seq(Byte), NEW c \in Seq(Byte), NEW rest \in Seq(Byte), NEW x \in Seq(Byte),
         b \o rest = c \o x, Len(b) >= Len(c), Len(c) >= 1
  PROVE  SubSeq(b, 1, Len(c)) = c /\ SubSeq(b, Len(c) + 1, Len(b)) \o rest = x
<1> DEFINE n == Len(c)
           f == SubSeq(b, 1, n)
           r == SubSeq(b, n + 1, Len(b))
<1>1. n \in 1 .. Len(b)
  BY LenProperties
<1>2. f \in Seq(Byte) /\ Len(f) = n /\ r \in Seq(Byte) /\ f \o r = b
  BY <1>1, BytesTaken, SplitAt
<1> HIDE DEF f, r
<1>3. f \o (r \o rest) = b \o rest
  <2>1. (f \o r) \o rest = f \o (r \o rest)
    <3>1. f \in Seq(Byte) /\ r \in Seq(Byte)
      BY <1>2
    <3> QED BY <3>1, BytesAssociate, Zenon
  <2>2. f \o r = b
    BY <1>2
  <2> QED BY <2>1, <2>2, Zenon
<1>4. r \o rest \in Seq(Byte)
  BY <1>2, ConcatBegins
<1>5. f \o (r \o rest) = c \o x /\ Len(f) = Len(c)
  BY <1>2, <1>3 DEF n
<1>6. f = c /\ r \o rest = x
  BY <1>2, <1>4, <1>5, SameParts
<1> QED BY <1>6 DEF f, r

(* The member that Scan makes of field i with the value v.                 *)
MemberOf(i, v) ==
  [tag |-> i, field |-> i, wire |-> WireOf(i), data |-> Code(i, v), pref |-> PrefOf(i, v)]

(* Field i of m is in front of x in what is left to read, and what Scan    *)
(* makes of it.                                                            *)
Fronts(i, m, rest, x) == rem \o rest = << TagByte(i) >> \o (Code(i, ValueOf(m, i)) \o x)
ScansTo(i, m, rest, x) ==
  /\ FoundHead.used # 0 /\ Len(Code(i, ValueOf(m, i))) >= 1
  /\ FoundLength = IF Len(rem) >= 1 + Len(Code(i, ValueOf(m, i)))
            THEN Len(Code(i, ValueOf(m, i))) ELSE 0
  /\ FoundLength # 0 => /\ Found = MemberOf(i, ValueOf(m, i))
                 /\ SubSeq(FoundBody, FoundLength + 1, Len(FoundBody)) \o rest = x

\* A field in front is taken whole, or found to be cut.
LEMMA ScanTakesField ==
  ASSUME rem \in Seq(Byte), rem # << >>, NEW i \in 1 .. n_fields, NEW m \in MessageT,
         NEW rest \in Seq(Byte), NEW x \in Seq(Byte), Fronts(i, m, rest, x)
  PROVE  ScansTo(i, m, rest, x)
<1> DEFINE v == ValueOf(m, i)
           c == Code(i, v)
           t == << TagByte(i) >>
<1>1. c \in Seq(Byte) /\ TagByte(i) \in Byte
  BY FieldPackIs
<1>2. t \in Seq(Byte) /\ Len(t) = 1 /\ t[1] = TagByte(i)
  BY <1>1
<1>3. i \in 1 .. 5 /\ 1 <= i /\ i <= 5 /\ i \in Int
  BY DEF n_fields
<1>4. Len(rem) \in Nat /\ Len(c) \in Nat /\ 1 \in 1 .. Len(rem)
  BY <1>1, LenProperties, EmptySeq
<1> HIDE DEF t, c
<1>5. c \o x \in Seq(Byte)
  BY <1>1, ConcatBegins
<1>6. rem \o rest = t \o (c \o x)
  BY Zenon DEF t, c, Fronts
<1>7. rem[1] = TagByte(i)
  <2>1. (rem \o rest)[1] = rem[1]
    BY <1>4, ConcatBegins
  <2>2. 1 \in 1 .. Len(t)
    BY <1>2
  <2>3. (t \o (c \o x))[1] = t[1]
    BY <1>2, <1>5, <2>2, ConcatBegins
  <2> QED BY <1>2, <1>6, <2>1, <2>3, Zenon
<1>8. FoundHead.used = 1 /\ FoundHead.wire = WireOf(i) /\ FoundHead.tag = i
  BY <1>3, <1>7, HeadOfTag DEF FoundHead
<1>9. FoundBody = SubSeq(rem, 2, Len(rem))
  BY <1>8 DEF FoundBody
<1>10. FoundBody \in Seq(Byte) /\ FoundBody \o rest = c \o x /\ Len(FoundBody) = Len(rem) - 1
  <2>1. SubSeq(rem, 1 + 1, Len(rem)) \in Seq(Byte)
    BY <1>4, BytesTaken
  <2>2. FoundBody \in Seq(Byte)
    BY <1>9, <2>1
  <2>3. Len(rem) >= Len(t) /\ Len(t) >= 1
    BY <1>2, <1>4
  <2>4. SubSeq(rem, Len(t) + 1, Len(rem)) \o rest = c \o x
    BY <1>2, <1>5, <1>6, <2>3, TakenOff
  <2>5. Len(t) + 1 = 2
    BY <1>2
  <2>6. FoundBody \o rest = c \o x
    BY <1>9, <2>4, <2>5, Zenon
  <2>7. Len(SubSeq(rem, 1, 1)) = 1 /\ SubSeq(rem, 1, 1) \in Seq(Byte)
    BY <1>4, BytesTaken
  <2>8. SubSeq(rem, 1, 1) \o SubSeq(rem, 1 + 1, Len(rem)) = rem
    BY <1>4, SplitAt
  <2>9. Len(rem) = 1 + Len(FoundBody)
    <3>1. Len(SubSeq(rem, 1, 1) \o FoundBody) = Len(SubSeq(rem, 1, 1)) + Len(FoundBody)
      BY <2>2, <2>7, ConcatBegins
    <3>2. SubSeq(rem, 1, 1) \o FoundBody = rem
      <4>1. 1 + 1 = 2
        OBVIOUS
      <4> QED BY <1>9, <2>8, <4>1, Zenon
    <3> QED BY <2>7, <3>1, <3>2
  <2>10. Len(FoundBody) \in Nat
    BY <2>2, LenProperties
  <2> QED BY <2>2, <2>6, <2>9, <2>10
<1>11. /\ Len(c) >= 1
       /\ member_length(FoundBody, WireOf(i)) = IF Len(FoundBody) >= Len(c) THEN Len(c) ELSE 0
       /\ i \in 4 .. 5 /\ Len(FoundBody) >= Len(c) =>
            VarintLength(FoundBody, 5) = Len(uint32_pack(Len(v)))
  BY <1>10, PieceOfField DEF c
<1>12. FoundLength = IF Len(rem) >= 1 + Len(c) THEN Len(c) ELSE 0
  <2>1. Len(FoundBody) >= Len(c) <=> Len(rem) >= 1 + Len(c)
    BY <1>4, <1>10
  <2> QED BY <1>8, <1>11, <2>1 DEF FoundLength
<1>13. ASSUME FoundLength # 0
       PROVE  Found = MemberOf(i, v) /\ SubSeq(FoundBody, FoundLength + 1, Len(FoundBody)) \o rest = x
  <2>1. Len(FoundBody) >= Len(c) /\ FoundLength = Len(c)
    BY <1>4, <1>10, <1>12, <1>13
  <2>2. SubSeq(FoundBody, 1, Len(c)) = c /\ SubSeq(FoundBody, Len(c) + 1, Len(FoundBody)) \o rest = x
    BY <1>1, <1>10, <1>11, <2>1, TakenOff
  <2>3. int_range_lookup(i) = i
    BY <1>3 DEF int_range_lookup, n_fields
  <2>4. (IF WireOf(i) = WIRE_TYPE_LENGTH_PREFIXED THEN VarintLength(FoundBody, 5) ELSE 0) = PrefOf(i, v)
    <3>1. CASE i \in 4 .. 5
      <4>1. VarintLength(FoundBody, 5) = Len(uint32_pack(Len(v)))
        BY <1>11, <2>1, <3>1
      <4> HIDE DEF v
      <4> QED BY <3>1, <4>1 DEF WireOf, PrefOf, WIRE_TYPE_LENGTH_PREFIXED
    <3>2. CASE ~ (i \in 4 .. 5)
      <4> HIDE DEF v
      <4> QED BY <3>2 DEF WireOf, PrefOf, WIRE_TYPE_LENGTH_PREFIXED
    <3> QED BY <3>1, <3>2
  <2>5. SubSeq(FoundBody, 1, FoundLength) = c /\ SubSeq(FoundBody, FoundLength + 1, Len(FoundBody)) \o rest = x
    BY <2>1, <2>2, Zenon
  <2>6. Found = [tag |-> i, field |-> i, wire |-> WireOf(i), data |-> c, pref |-> PrefOf(i, v)]
    BY <1>8, <2>3, <2>4, <2>5, Zenon DEF Found
  <2> QED BY <2>5, <2>6 DEF MemberOf, c
<1>14. FoundHead.used # 0
  BY <1>8
<1>15. Len(c) >= 1
  BY <1>11
<1> QED BY <1>12, <1>13, <1>14, <1>15, Zenon DEF c, ScansTo

-----------------------------------------------------------------------------
(* The fields of the two messages that are sent.                           *)

(* The ten fields of the two messages, in the order they are written, and  *)
(* the bytes from each on.                                                 *)
MsgAt(p) == IF p <= 5 THEN sent.first ELSE sent.second
FldAt(p) == IF p <= 5 THEN p ELSE p - 5
ValAt(p) == ValueOf(MsgAt(p), FldAt(p))
ZeroAt(p) == IsZero(FldAt(p), ValAt(p))
PartAt(p) == FieldPack(MsgAt(p), FldAt(p))
After(p) == IF p <= 5 THEN RestPack(sent.first, p) \o message_pack(sent.second)
            ELSE RestPack(sent.second, p - 5)

\* The ten parts are bytes.
LEMMA PartAtIs ==
  ASSUME Named, NEW p \in 1 .. 10
  PROVE  /\ FldAt(p) \in 1 .. n_fields /\ MsgAt(p) \in MessageT
         /\ Code(FldAt(p), ValAt(p)) \in Seq(Byte) /\ TagByte(FldAt(p)) \in Byte
         /\ PartAt(p) = IF ZeroAt(p) THEN << >>
                      ELSE << TagByte(FldAt(p)) >> \o Code(FldAt(p), ValAt(p))
<1>1. FldAt(p) \in 1 .. n_fields
  BY DEF FldAt, n_fields
<1>2. MsgAt(p) \in MessageT
  BY UnpackAssumption DEF Named, MsgAt
<1> QED BY <1>1, <1>2, FieldPackIs, Zenon DEF PartAt, ZeroAt, ValAt

\* The bytes from a place on are its part and those from the next place on.
LEMMA AfterIs ==
  ASSUME Named
  PROVE  /\ \A p \in 1 .. 11 : After(p) \in Seq(Byte)
         /\ \A p \in 1 .. 10 : After(p) = PartAt(p) \o After(p + 1)
         /\ After(1) = Stream /\ After(6) = message_pack(sent.second) /\ After(11) = << >>
<1> DEFINE m == sent.first
           n == sent.second
<1>1. m \in MessageT /\ n \in MessageT
  BY UnpackAssumption DEF Named
<1> HIDE DEF m, n
<1>2. message_pack(n) \in Seq(Byte) /\ message_pack(m) \in Seq(Byte)
  BY <1>1, PackedIs
<1>3. /\ \A i \in 1 .. 6 : RestPack(m, i) \in Seq(Byte) /\ RestPack(n, i) \in Seq(Byte)
      /\ \A i \in 1 .. 5 : RestPack(m, i) = FieldPack(m, i) \o RestPack(m, i + 1)
      /\ \A i \in 1 .. 5 : RestPack(n, i) = FieldPack(n, i) \o RestPack(n, i + 1)
      /\ RestPack(m, 1) = message_pack(m) /\ RestPack(n, 1) = message_pack(n)
      /\ RestPack(m, 6) = << >> /\ RestPack(n, 6) = << >>
  BY <1>1, RestIs
<1>4. \A i \in 1 .. 5 : FieldPack(m, i) \in Seq(Byte)
  BY <1>1, FieldPackLen DEF n_fields
<1>5. ASSUME NEW p \in 1 .. 11 PROVE After(p) \in Seq(Byte)
  <2>1. CASE p <= 5
    <3>1. After(p) = RestPack(m, p) \o message_pack(n) /\ p \in 1 .. 6
      BY <2>1 DEF After, m, n
    <3>2. RestPack(m, p) \in Seq(Byte)
      BY <1>3, <3>1
    <3>3. RestPack(m, p) \o message_pack(n) \in Seq(Byte)
      BY <1>2, <3>2, ConcatBegins
    <3> QED BY <3>1, <3>3, Zenon
  <2>2. CASE ~ (p <= 5)
    <3>1. After(p) = RestPack(n, p - 5) /\ p - 5 \in 1 .. 6
      BY <2>2 DEF After, n
    <3> QED BY <1>3, <3>1, Zenon
  <2> QED BY <2>1, <2>2
<1>6. ASSUME NEW p \in 1 .. 10 PROVE After(p) = PartAt(p) \o After(p + 1)
  <2>1. CASE p <= 4
    <3>1. p \in 1 .. 5 /\ p + 1 \in 1 .. 6 /\ p + 1 <= 5 /\ p <= 5
      BY <2>1
    <3>2. /\ After(p) = RestPack(m, p) \o message_pack(n)
          /\ After(p + 1) = RestPack(m, p + 1) \o message_pack(n)
          /\ PartAt(p) = FieldPack(m, p)
      BY <3>1, Zenon DEF After, PartAt, MsgAt, FldAt, m, n
    <3>3. RestPack(m, p + 1) \in Seq(Byte) /\ FieldPack(m, p) \in Seq(Byte)
      BY <1>3, <1>4, <3>1, Zenon
    <3>4. (FieldPack(m, p) \o RestPack(m, p + 1)) \o message_pack(n)
            = FieldPack(m, p) \o (RestPack(m, p + 1) \o message_pack(n))
      BY <1>2, <3>3, BytesAssociate, Zenon
    <3>5. RestPack(m, p) = FieldPack(m, p) \o RestPack(m, p + 1)
      BY <1>3, <3>1, Zenon
    <3> QED BY <3>2, <3>4, <3>5, Zenon
  <2>2. CASE p = 5
    <3>1. /\ After(p) = RestPack(m, 5) \o message_pack(n)
          /\ PartAt(p) = FieldPack(m, 5)
      <4>1. 5 <= 5
        OBVIOUS
      <4> QED BY <2>2, <4>1, Zenon DEF After, PartAt, MsgAt, FldAt, m, n
    <3>2. After(p + 1) = RestPack(n, 1)
      <4>1. p + 1 = 6 /\ ~ (6 <= 5) /\ 6 - 5 = 1
        BY <2>2
      <4>2. After(6) = RestPack(n, 6 - 5)
        BY <4>1, Zenon DEF After, n
      <4> QED BY <4>1, <4>2, Zenon
    <3>3. RestPack(m, 5) = FieldPack(m, 5) \o << >>
      <4>1. 5 \in 1 .. 5 /\ 5 + 1 = 6
        OBVIOUS
      <4>2. RestPack(m, 5) = FieldPack(m, 5) \o RestPack(m, 5 + 1)
        BY <1>3, <4>1, Zenon
      <4> QED BY <1>3, <4>1, <4>2, Zenon
    <3>4. FieldPack(m, 5) \o << >> = FieldPack(m, 5)
      <4>1. 5 \in 1 .. 5
        OBVIOUS
      <4>2. FieldPack(m, 5) \in Seq(Byte)
        BY <1>4, <4>1, Zenon
      <4> QED BY <4>2, EmptyAround, Zenon
    <3> QED BY <1>3, <3>1, <3>2, <3>3, <3>4, Zenon
  <2>3. CASE p >= 6
    <3>1. /\ p - 5 \in 1 .. 5 /\ (p + 1) - 5 = (p - 5) + 1
          /\ ~ (p <= 5) /\ ~ (p + 1 <= 5)
      BY <2>3
    <3>2. /\ After(p) = RestPack(n, p - 5) /\ PartAt(p) = FieldPack(n, p - 5)
          /\ After(p + 1) = RestPack(n, (p + 1) - 5)
      BY <3>1, Zenon DEF After, PartAt, MsgAt, FldAt, n
    <3>3. RestPack(n, p - 5) = FieldPack(n, p - 5) \o RestPack(n, (p - 5) + 1)
      BY <1>3, <3>1, Zenon
    <3> QED BY <3>1, <3>2, <3>3, Zenon
  <2> QED BY <2>1, <2>2, <2>3
<1>7. After(1) = Stream
  <2>1. 1 <= 5
    OBVIOUS
  <2>2. After(1) = RestPack(m, 1) \o message_pack(n)
    BY <2>1, Zenon DEF After, m, n
  <2>3. Stream = message_pack(m) \o message_pack(n)
    BY Zenon DEF Stream, m, n
  <2> QED BY <1>3, <2>2, <2>3, Zenon
<1>8. After(6) = message_pack(sent.second) /\ After(11) = << >>
  <2>1. ~ (6 <= 5) /\ 6 - 5 = 1 /\ ~ (11 <= 5) /\ 11 - 5 = 6
    OBVIOUS
  <2>2. After(6) = RestPack(n, 6 - 5) /\ After(11) = RestPack(n, 11 - 5)
    BY <2>1, Zenon DEF After, n
  <2>3. After(6) = RestPack(n, 1) /\ After(11) = RestPack(n, 6)
    BY <2>1, <2>2, Zenon
  <2> QED BY <1>3, <2>3, Zenon DEF n
<1> QED BY <1>5, <1>6, <1>7, <1>8

(* What a field adds.                                                      *)
LEMMA AfterStep ==
  ASSUME Named, NEW p \in 1 .. 10
  PROVE  /\ ZeroAt(p) => After(p) = After(p + 1)
         /\ ~ ZeroAt(p) =>
              /\ After(p) = << TagByte(FldAt(p)) >> \o (Code(FldAt(p), ValAt(p)) \o After(p + 1))
              /\ Len(After(p)) = 1 + Len(Code(FldAt(p), ValAt(p))) + Len(After(p + 1))
<1> DEFINE c == Code(FldAt(p), ValAt(p))
           t == << TagByte(FldAt(p)) >>
           a == After(p + 1)
<1>1. p + 1 \in 1 .. 11
  OBVIOUS
<1>2. a \in Seq(Byte)
  BY <1>1, AfterIs, Zenon
<1>3. c \in Seq(Byte) /\ TagByte(FldAt(p)) \in Byte
  BY PartAtIs, Zenon
<1>4. t \in Seq(Byte) /\ Len(t) = 1
  BY <1>3
<1>5. After(p) = PartAt(p) \o a
  BY AfterIs, Zenon
<1>6. ASSUME ZeroAt(p) PROVE After(p) = a
  <2>1. PartAt(p) = << >>
    BY <1>6, PartAtIs, Zenon
  <2>2. << >> \o a = a
    BY <1>2, EmptyAround, Zenon
  <2> QED BY <1>5, <2>1, <2>2, Zenon
<1>7. ASSUME ~ ZeroAt(p)
      PROVE  After(p) = t \o (c \o a) /\ Len(After(p)) = 1 + Len(c) + Len(a)
  <2>1. PartAt(p) = t \o c
    BY <1>7, PartAtIs, Zenon
  <2> HIDE DEF t, c, a
  <2>2. (t \o c) \o a = t \o (c \o a)
    BY <1>2, <1>3, <1>4, BytesAssociate, Zenon
  <2>3. After(p) = t \o (c \o a)
    BY <1>5, <2>1, <2>2, Zenon
  <2>4. c \o a \in Seq(Byte) /\ Len(c \o a) = Len(c) + Len(a) /\ Len(c) \in Nat /\ Len(a) \in Nat
    BY <1>2, <1>3, ConcatBegins
  <2>5. Len(t \o (c \o a)) = Len(t) + Len(c \o a)
    BY <1>4, <2>4, ConcatBegins, Zenon
  <2>6. Len(After(p)) = Len(t) + Len(c \o a)
    BY <2>3, <2>5, Zenon
  <2>7. Len(After(p)) = 1 + Len(c) + Len(a)
    BY <1>4, <2>4, <2>6
  <2> QED BY <2>3, <2>7
<1> QED BY <1>6, <1>7

(* From a on the bytes get fewer with each field that is not zero.         *)
Falls(a) == \A b \in a .. 11 :
  /\ Len(After(a)) >= Len(After(b))
  /\ Len(After(a)) = Len(After(b)) <=> \A p \in a .. b - 1 : ZeroAt(p)

\* One place back,
LEMMA FallsStep ==
  ASSUME Named, NEW a \in 1 .. 10, Falls(a + 1)
  PROVE  Falls(a)
<1> SUFFICES ASSUME NEW b \in a .. 11
             PROVE  /\ Len(After(a)) >= Len(After(b))
                    /\ Len(After(a)) = Len(After(b)) <=> \A p \in a .. b - 1 : ZeroAt(p)
  BY DEF Falls
<1> DEFINE la == Len(After(a))
           ln == Len(After(a + 1))
           lb == Len(After(b))
<1>1. la \in Nat /\ ln \in Nat /\ lb \in Nat
  <2>1. After(a) \in Seq(Byte) /\ After(a + 1) \in Seq(Byte) /\ After(b) \in Seq(Byte)
    <3>1. a \in 1 .. 11 /\ a + 1 \in 1 .. 11 /\ b \in 1 .. 11
      OBVIOUS
    <3> QED BY <3>1, AfterIs, Zenon
  <2> QED BY <2>1, LenProperties
<1>2. ZeroAt(a) => la = ln
  BY AfterStep, Zenon
<1>3. ~ ZeroAt(a) => la > ln
  <2> DEFINE lc == Len(Code(FldAt(a), ValAt(a)))
  <2>1. lc \in Nat
    BY PartAtIs, LenProperties
  <2>2. ~ ZeroAt(a) => la = 1 + lc + ln
    BY AfterStep
  <2> HIDE DEF la, ln, lc
  <2> QED BY <1>1, <2>1, <2>2
<1> HIDE DEF la, ln, lb
<1>4. CASE b = a
  <2>1. a .. b - 1 = {}
    BY <1>4
  <2> QED BY <1>1, <1>4, <2>1 DEF la, lb
<1>5. CASE b # a
  <2>1. b \in a + 1 .. 11
    BY <1>5
  <2>2. ln >= lb /\ (ln = lb <=> \A p \in a + 1 .. b - 1 : ZeroAt(p))
    BY <2>1 DEF Falls, ln, lb
  <2>3. (\A p \in a .. b - 1 : ZeroAt(p)) <=> ZeroAt(a) /\ \A p \in a + 1 .. b - 1 : ZeroAt(p)
    <3>1. a .. b - 1 = {a} \cup (a + 1 .. b - 1)
      BY <2>1
    <3> QED BY <3>1
  <2>4. la >= lb
    BY <1>1, <1>2, <1>3, <2>2
  <2>5. la = lb <=> ZeroAt(a) /\ ln = lb
    BY <1>1, <1>2, <1>3, <2>2
  <2> QED BY <2>2, <2>3, <2>4, <2>5 DEF la, lb
<1> QED BY <1>4, <1>5

\* and so at all places.
LEMMA AfterFalls ==
  ASSUME Named, NEW a \in 1 .. 11
  PROVE  Falls(a)
<1>1. Falls(11)
  <2>1. \A b \in 11 .. 11 : b = 11
    OBVIOUS
  <2>2. 11 .. 11 - 1 = {}
    OBVIOUS
  <2>3. Len(After(11)) \in Nat
    <3>1. 11 \in 1 .. 11
      OBVIOUS
    <3>2. After(11) \in Seq(Byte)
      BY <3>1, AfterIs, Zenon
    <3> QED BY <3>2, LenProperties
  <2> QED BY <2>1, <2>2, <2>3 DEF Falls
<1>2. /\ 1 + 1 = 2 /\ 2 + 1 = 3 /\ 3 + 1 = 4 /\ 4 + 1 = 5 /\ 5 + 1 = 6
      /\ 6 + 1 = 7 /\ 7 + 1 = 8 /\ 8 + 1 = 9 /\ 9 + 1 = 10 /\ 10 + 1 = 11
  OBVIOUS
<1>3. /\ 1 \in 1 .. 10 /\ 2 \in 1 .. 10 /\ 3 \in 1 .. 10 /\ 4 \in 1 .. 10 /\ 5 \in 1 .. 10
      /\ 6 \in 1 .. 10 /\ 7 \in 1 .. 10 /\ 8 \in 1 .. 10 /\ 9 \in 1 .. 10 /\ 10 \in 1 .. 10
  OBVIOUS
<1>4. Falls(10)
  BY <1>1, <1>2, <1>3, FallsStep, Zenon
<1>5. Falls(9)
  BY <1>4, <1>2, <1>3, FallsStep, Zenon
<1>6. Falls(8)
  BY <1>5, <1>2, <1>3, FallsStep, Zenon
<1>7. Falls(7)
  BY <1>6, <1>2, <1>3, FallsStep, Zenon
<1>8. Falls(6)
  BY <1>7, <1>2, <1>3, FallsStep, Zenon
<1>9. Falls(5)
  BY <1>8, <1>2, <1>3, FallsStep, Zenon
<1>10. Falls(4)
  BY <1>9, <1>2, <1>3, FallsStep, Zenon
<1>11. Falls(3)
  BY <1>10, <1>2, <1>3, FallsStep, Zenon
<1>12. Falls(2)
  BY <1>11, <1>2, <1>3, FallsStep, Zenon
<1>13. Falls(1)
  BY <1>12, <1>2, <1>3, FallsStep, Zenon
<1>14. \/ a = 1 \/ a = 2 \/ a = 3 \/ a = 4 \/ a = 5 \/ a = 6
       \/ a = 7 \/ a = 8 \/ a = 9 \/ a = 10 \/ a = 11
  OBVIOUS
<1> QED BY <1>1, <1>4, <1>5, <1>6, <1>7, <1>8, <1>9, <1>10, <1>11, <1>12, <1>13, <1>14, Zenon

(* The next field that is written.                                         *)
NextField(a) == After(a) # << >> =>
  \E q \in a .. 10 : ~ ZeroAt(q) /\ After(q) = After(a) /\ \A p \in a .. q - 1 : ZeroAt(p)

\* One place back,
LEMMA NextStep ==
  ASSUME Named, NEW a \in 1 .. 10, NextField(a + 1)
  PROVE  NextField(a)
<1>1. CASE ZeroAt(a)
  <2>1. After(a) = After(a + 1)
    BY <1>1, AfterStep, Zenon
  <2>2. SUFFICES ASSUME After(a) # << >>
        PROVE \E q \in a .. 10 : ~ ZeroAt(q) /\ After(q) = After(a) /\ \A p \in a .. q - 1 : ZeroAt(p)
    BY Zenon DEF NextField
  <2>3. PICK q \in a + 1 .. 10 : /\ ~ ZeroAt(q) /\ After(q) = After(a)
                                 /\ \A p \in a + 1 .. q - 1 : ZeroAt(p)
    BY <2>1, <2>2, Zenon DEF NextField
  <2>4. q \in a .. 10 /\ a .. q - 1 = {a} \cup (a + 1 .. q - 1)
    BY <2>3
  <2>5. \A p \in a .. q - 1 : ZeroAt(p)
    BY <1>1, <2>3, <2>4
  <2> QED BY <2>3, <2>4, <2>5, Zenon
<1>2. CASE ~ ZeroAt(a)
  <2>1. a \in a .. 10 /\ a .. a - 1 = {}
    OBVIOUS
  <2>2. \A p \in a .. a - 1 : ZeroAt(p)
    BY <2>1
  <2> QED BY <1>2, <2>1, <2>2, Zenon DEF NextField
<1> QED BY <1>1, <1>2

\* and so at all places.
LEMMA NextFound ==
  ASSUME Named, NEW a \in 1 .. 11
  PROVE  NextField(a)
<1>1. NextField(11)
  BY AfterIs, Zenon DEF NextField
<1>2. /\ 1 + 1 = 2 /\ 2 + 1 = 3 /\ 3 + 1 = 4 /\ 4 + 1 = 5 /\ 5 + 1 = 6
      /\ 6 + 1 = 7 /\ 7 + 1 = 8 /\ 8 + 1 = 9 /\ 9 + 1 = 10 /\ 10 + 1 = 11
  OBVIOUS
<1>3. /\ 1 \in 1 .. 10 /\ 2 \in 1 .. 10 /\ 3 \in 1 .. 10 /\ 4 \in 1 .. 10 /\ 5 \in 1 .. 10
      /\ 6 \in 1 .. 10 /\ 7 \in 1 .. 10 /\ 8 \in 1 .. 10 /\ 9 \in 1 .. 10 /\ 10 \in 1 .. 10
  OBVIOUS
<1>4. NextField(10)
  BY <1>1, <1>2, <1>3, NextStep, Zenon
<1>5. NextField(9)
  BY <1>4, <1>2, <1>3, NextStep, Zenon
<1>6. NextField(8)
  BY <1>5, <1>2, <1>3, NextStep, Zenon
<1>7. NextField(7)
  BY <1>6, <1>2, <1>3, NextStep, Zenon
<1>8. NextField(6)
  BY <1>7, <1>2, <1>3, NextStep, Zenon
<1>9. NextField(5)
  BY <1>8, <1>2, <1>3, NextStep, Zenon
<1>10. NextField(4)
  BY <1>9, <1>2, <1>3, NextStep, Zenon
<1>11. NextField(3)
  BY <1>10, <1>2, <1>3, NextStep, Zenon
<1>12. NextField(2)
  BY <1>11, <1>2, <1>3, NextStep, Zenon
<1>13. NextField(1)
  BY <1>12, <1>2, <1>3, NextStep, Zenon
<1>14. \/ a = 1 \/ a = 2 \/ a = 3 \/ a = 4 \/ a = 5 \/ a = 6
       \/ a = 7 \/ a = 8 \/ a = 9 \/ a = 10 \/ a = 11
  OBVIOUS
<1> QED BY <1>1, <1>4, <1>5, <1>6, <1>7, <1>8, <1>9, <1>10, <1>11, <1>12, <1>13, <1>14, Zenon

(* What the message reads for a field, and what it must read when the      *)
(* fields at the places up to r are stored.                                *)
Held(i) == ValueOf(Values, i)
Expect(i, r) ==
  IF i + 5 <= r /\ ~ ZeroAt(i + 5) THEN ValAt(i + 5)
  ELSE IF i <= r THEN ValAt(i) ELSE ValueOf(init_value, i)

\* message_t__init leaves zeros and empty strings.
LEMMA InitialValues ==
  ASSUME NEW i \in 1 .. n_fields
  PROVE  ValueOf(init_value, i) = IF i \in 4 .. 5 THEN << >> ELSE 0
<1>1. i = 1 \/ i = 2 \/ i = 3 \/ i = 4 \/ i = 5
  BY DEF n_fields
<1>2. /\ ValueOf(init_value, 1) = 0 /\ ValueOf(init_value, 2) = 0 /\ ValueOf(init_value, 3) = 0
      /\ ValueOf(init_value, 4) = << >> /\ ValueOf(init_value, 5) = << >>
  BY DEF ValueOf, FieldAt, message_t__field_descriptors, init_value
<1>3. CASE i \in 1 .. 3
  <2>1. i = 1 \/ i = 2 \/ i = 3
    BY <1>3
  <2>2. ~ (i \in 4 .. 5)
    BY <1>3
  <2> QED BY <1>2, <2>1, <2>2, Zenon
<1>4. CASE i \in 4 .. 5
  <2>1. i = 4 \/ i = 5
    BY <1>4
  <2> QED BY <1>2, <1>4, <2>1, Zenon
<1>5. i \in 1 .. 3 \/ i \in 4 .. 5
  BY DEF n_fields
<1> QED BY <1>3, <1>4, <1>5

\* A field is left out when it has its initial value.
LEMMA ZeroIs ==
  ASSUME NEW i \in 1 .. n_fields
  PROVE  ZeroAt(i) <=> ValAt(i) = ValueOf(init_value, i)
<1>1. FldAt(i) = i
  BY DEF FldAt, n_fields
<1>2. CASE i \in 4 .. 5
  BY <1>1, <1>2, InitialValues, Zenon DEF ZeroAt, IsZero
<1>3. CASE ~ (i \in 4 .. 5)
  BY <1>1, <1>3, InitialValues, Zenon DEF ZeroAt, IsZero
<1> QED BY <1>2, <1>3

(* Places without a field change nothing.                                  *)
LEMMA ExpectSame ==
  ASSUME NEW i \in 1 .. n_fields, NEW r \in 0 .. 10, NEW s \in r .. 10,
         \A p \in r + 1 .. s : ZeroAt(p)
  PROVE  Expect(i, s) = Expect(i, r)
<1>1. i \in Int /\ 1 <= i /\ i <= 5
  BY DEF n_fields
<1>2. CASE i + 5 <= s /\ ~ ZeroAt(i + 5)
  <2>1. i + 5 <= r
    BY <1>1, <1>2
  <2> QED BY <1>2, <2>1, Zenon DEF Expect
<1>3. CASE ~ (i + 5 <= s /\ ~ ZeroAt(i + 5))
  <2>1. ~ (i + 5 <= r /\ ~ ZeroAt(i + 5))
    <3>1. i + 5 <= r => i + 5 <= s
      BY <1>1
    <3> QED BY <1>3, <3>1
  <2>2. CASE i <= r
    <3>1. i <= s
      BY <1>1, <2>2
    <3> QED BY <1>3, <2>1, <2>2, <3>1, Zenon DEF Expect
  <2>3. CASE ~ (i <= r) /\ i <= s
    <3>1. i \in r + 1 .. s
      BY <1>1, <2>3
    <3>2. ValAt(i) = ValueOf(init_value, i)
      BY <3>1, ZeroIs
    <3> QED BY <1>3, <2>1, <2>3, <3>2, Zenon DEF Expect
  <2>4. CASE ~ (i <= r) /\ ~ (i <= s)
    BY <1>3, <2>1, <2>4, Zenon DEF Expect
  <2> QED BY <2>2, <2>3, <2>4
<1> QED BY <1>2, <1>3

(* A field changes its own value.                                          *)
LEMMA ExpectStep ==
  ASSUME NEW i \in 1 .. n_fields, NEW r \in 1 .. 10, ~ ZeroAt(r)
  PROVE  Expect(i, r) = IF i = FldAt(r) THEN ValAt(r) ELSE Expect(i, r - 1)
<1>1. i \in Int /\ 1 <= i /\ i <= 5
  BY DEF n_fields
<1>2. CASE i = FldAt(r) /\ r <= 5
  <2>1. i = r /\ ~ (i + 5 <= r) /\ i <= r
    BY <1>1, <1>2 DEF FldAt
  <2>2. Expect(i, r) = ValAt(r)
    BY <2>1, Zenon DEF Expect
  <2> QED BY <1>2, <2>2
<1>3. CASE i = FldAt(r) /\ ~ (r <= 5)
  <2>1. i + 5 = r /\ i + 5 <= r
    BY <1>1, <1>3 DEF FldAt
  <2>2. Expect(i, r) = ValAt(r)
    BY <2>1, Zenon DEF Expect
  <2> QED BY <1>3, <2>2
<1>4. CASE i # FldAt(r)
  <2>1. i + 5 # r /\ i # r
    BY <1>1, <1>4 DEF FldAt
  <2>2. (i + 5 <= r <=> i + 5 <= r - 1) /\ (i <= r <=> i <= r - 1)
    BY <1>1, <2>1
  <2>3. Expect(i, r) = Expect(i, r - 1)
    BY <2>2, Zenon DEF Expect
  <2> QED BY <1>4, <2>3
<1> QED BY <1>2, <1>3, <1>4

-----------------------------------------------------------------------------
(* What the message holds, field by field.                                 *)
Reading(m, d, k) == [m EXCEPT !.data = d, !.key = k]

\* The string fields read what they point to, the others what they hold.
LEMMA ReadIs ==
  ASSUME NEW m, IsMessage(m), NEW d, NEW k, NEW i \in 1 .. n_fields
  PROVE  ValueOf(Reading(m, d, k), i) =
           IF NameOf(i) = "data" THEN d ELSE IF NameOf(i) = "key" THEN k ELSE m[NameOf(i)]
<1> DEFINE r == Reading(m, d, k)
<1>1. DOMAIN m = {"opcode", "c_type", "data_size", "data", "key"}
  BY DEF IsMessage
<1>2. /\ r.opcode = m.opcode /\ r.c_type = m.c_type
      /\ r.data_size = m.data_size /\ r.data = d /\ r.key = k
  BY <1>1 DEF Reading
<1> HIDE DEF r
<1>3. i = 1 \/ i = 2 \/ i = 3 \/ i = 4 \/ i = 5
  BY DEF n_fields
<1>4. /\ NameOf(1) = "opcode" /\ NameOf(2) = "c_type" /\ NameOf(3) = "data_size"
      /\ NameOf(4) = "data" /\ NameOf(5) = "key"
  BY DEF NameOf, message_t__field_descriptors
<1>5. ValueOf(r, i) = r[NameOf(i)]
  BY Zenon DEF ValueOf, FieldAt, NameOf
<1>6. CASE i \in {1, 2, 3}
  <2>1. r[NameOf(i)] = m[NameOf(i)] /\ NameOf(i) # "data" /\ NameOf(i) # "key"
    BY <1>2, <1>4, <1>6
  <2> QED BY <1>5, <2>1 DEF r
<1>7. CASE i \in {4, 5}
  BY <1>2, <1>4, <1>5, <1>7 DEF r
<1> QED BY <1>3, <1>6, <1>7

\* The same of the message at hand.
LEMMA HeldIs ==
  ASSUME IsMessage(message), NEW i \in 1 .. n_fields
  PROVE  Held(i) = IF TypeOf(i) = "STRING" THEN TextAt(message[NameOf(i)]) ELSE message[NameOf(i)]
<1> DEFINE d == TextAt(message["data"])
           k == TextAt(message["key"])
<1>1. Values = Reading(message, d, k)
  BY Zenon DEF Values, Reading
<1>2. Held(i) = IF NameOf(i) = "data" THEN d ELSE IF NameOf(i) = "key" THEN k
                ELSE message[NameOf(i)]
  <2> HIDE DEF d, k
  <2>1. ValueOf(Reading(message, d, k), i) =
          IF NameOf(i) = "data" THEN d ELSE IF NameOf(i) = "key" THEN k ELSE message[NameOf(i)]
    BY ReadIs, Zenon
  <2> QED BY <1>1, <2>1, Zenon DEF Held
<1>3. TypeOf(i) = "STRING" <=> NameOf(i) = "data" \/ NameOf(i) = "key"
  BY FieldNames
<1> QED BY <1>2, <1>3, Zenon

\* The fields have names of their own.
LEMMA NamesApart ==
  ASSUME NEW i \in 1 .. n_fields, NEW j \in 1 .. n_fields, NameOf(i) = NameOf(j)
  PROVE  i = j
<1>1. /\ i = 1 \/ i = 2 \/ i = 3 \/ i = 4 \/ i = 5
      /\ j = 1 \/ j = 2 \/ j = 3 \/ j = 4 \/ j = 5
  BY DEF n_fields
<1>2. /\ NameOf(1) = "opcode" /\ NameOf(2) = "c_type" /\ NameOf(3) = "data_size"
      /\ NameOf(4) = "data" /\ NameOf(5) = "key"
  BY DEF NameOf, message_t__field_descriptors
<1> QED BY <1>1, <1>2

(* A store into field f changes what is held there.                        *)
LEMMA HeldAfterStore ==
  ASSUME IsMessage(message), IsMessage(message'), UNCHANGED scanned, NEW f \in 1 .. n_fields,
         NEW v, message' = [message EXCEPT ![NameOf(f)] = v], NEW i \in 1 .. n_fields
  PROVE  Held(i)' = IF i = f THEN (IF TypeOf(f) = "STRING" THEN TextAt(v) ELSE v) ELSE Held(i)
<1>1. DOMAIN message = {"opcode", "c_type", "data_size", "data", "key"}
  BY DEF IsMessage
<1>2. NameOf(i) \in DOMAIN message
  BY <1>1, FieldNames
<1>3. message'[NameOf(i)] = IF NameOf(i) = NameOf(f) THEN v ELSE message[NameOf(i)]
  BY <1>2
<1>4. NameOf(i) = NameOf(f) <=> i = f
  BY NamesApart
<1>5. \A b : TextAt(b)' = TextAt(b)
  BY DEF TextAt
<1>6. Held(i)' = IF TypeOf(i) = "STRING" THEN TextAt(message'[NameOf(i)]) ELSE message'[NameOf(i)]
  <2> DEFINE d == TextAt(message'["data"])
             k == TextAt(message'["key"])
  <2>1. Values' = Reading(message', d, k)
    BY <1>5, Zenon DEF Values, Reading
  <2>2. Held(i)' = IF NameOf(i) = "data" THEN d ELSE IF NameOf(i) = "key" THEN k
                   ELSE message'[NameOf(i)]
    <3> HIDE DEF d, k
    <3>1. ValueOf(Reading(message', d, k), i) =
            IF NameOf(i) = "data" THEN d ELSE IF NameOf(i) = "key" THEN k ELSE message'[NameOf(i)]
      <4> DEFINE w == message'
      <4>1. IsMessage(w)
        OBVIOUS
      <4> HIDE DEF w
      <4>2. ValueOf(Reading(w, d, k), i) =
              IF NameOf(i) = "data" THEN d ELSE IF NameOf(i) = "key" THEN k ELSE w[NameOf(i)]
        BY <4>1, ReadIs, Zenon
      <4> QED BY <4>2 DEF w
    <3>2. Held(i)' = ValueOf(Values', i)
      BY DEF Held, ValueOf
    <3> QED BY <2>1, <3>1, <3>2, Zenon
  <2>3. TypeOf(i) = "STRING" <=> NameOf(i) = "data" \/ NameOf(i) = "key"
    BY FieldNames
  <2> QED BY <2>2, <2>3, Zenon
<1>7. Held(i) = IF TypeOf(i) = "STRING" THEN TextAt(message[NameOf(i)]) ELSE message[NameOf(i)]
  BY HeldIs
<1>8. CASE i = f
  BY <1>3, <1>6, <1>8, Zenon
<1>9. CASE i # f
  <2>1. message'[NameOf(i)] = message[NameOf(i)]
    BY <1>3, <1>4, <1>9, Zenon
  <2> QED BY <1>6, <1>7, <1>9, <2>1, Zenon
<1> QED BY <1>8, <1>9

(* What of the two messages the read did not deliver.                      *)
Cut == SubSeq(Stream, sent.to + 1, Len(Stream))
EndsWhole == sent.to = First \/ sent.to = Len(Stream)

\* The stream is one message and the other.
LEMMA StreamIs ==
  ASSUME Named
  PROVE  /\ Stream \in Seq(Byte) /\ Len(Stream) = First + Len(After(6))
         /\ First \in Nat /\ Len(After(6)) \in Nat /\ Len(Stream) \in Nat
<1> DEFINE a == message_pack(sent.first)
           b == message_pack(sent.second)
<1>1. sent.first \in MessageT /\ sent.second \in MessageT
  BY UnpackAssumption DEF Named
<1>2. a \in Seq(Byte) /\ b \in Seq(Byte)
  BY <1>1, PackedIs, Zenon
<1>3. First = Len(a)
  BY DEF First
<1>4. After(6) = b
  BY AfterIs, Zenon
<1>5. Stream = a \o b
  BY Zenon DEF Stream
<1> HIDE DEF a, b
<1>6. a \o b \in Seq(Byte) /\ Len(a \o b) = Len(a) + Len(b) /\ Len(a) \in Nat /\ Len(b) \in Nat
  BY <1>2, ConcatBegins, Zenon
<1>7. Len(Stream) = Len(a) + Len(b) /\ Stream \in Seq(Byte) /\ Len(After(6)) = Len(b)
  BY <1>4, <1>5, <1>6, Zenon
<1> QED BY <1>3, <1>6, <1>7

\* What was delivered and what was cut make up the stream.
LEMMA CutIs ==
  ASSUME Named, sent.to \in 0 .. Len(Stream)
  PROVE  /\ Cut \in Seq(Byte) /\ Len(Cut) = Len(Stream) - sent.to
         /\ SubSeq(Stream, 1, sent.to) \o Cut = Stream
<1>1. Stream \in Seq(Byte) /\ Len(Stream) \in Nat
  BY StreamIs
<1>2. CASE sent.to = 0
  <2>1. SubSeq(Stream, 1, sent.to) = << >>
    BY <1>1, <1>2
  <2>2. Cut = Stream
    <3>1. Cut = SubSeq(Stream, 1, Len(Stream))
      BY <1>2 DEF Cut
    <3>2. << >> \in Seq(Byte) /\ << >> \o Stream = Stream /\ Stream \o << >> = Stream
      BY <1>1, EmptyAround
    <3>3. SubSeq(Stream \o << >>, 1, Len(Stream)) = Stream
      BY <1>1, <3>2, FrontAndRest, Zenon
    <3> QED BY <3>1, <3>2, <3>3, Zenon
  <2>3. << >> \o Stream = Stream
    BY <1>1, EmptyAround
  <2>4. Len(Cut) = Len(Stream) - sent.to
    <3>1. Len(Cut) = Len(Stream)
      BY <2>2, Zenon
    <3> QED BY <1>1, <1>2, <3>1
  <2> QED BY <1>1, <2>1, <2>2, <2>3, <2>4, Zenon
<1>3. CASE sent.to # 0
  <2> DEFINE n == sent.to
             f == SubSeq(Stream, 1, n)
  <2>1. n \in 1 .. Len(Stream)
    BY <1>3
  <2>2. f \in Seq(Byte) /\ Len(f) = n /\ Cut \in Seq(Byte)
    BY <1>1, <2>1, BytesTaken, Zenon DEF Cut
  <2>3. f \o Cut = Stream
    BY <1>1, <2>1, SplitAt, Zenon DEF Cut
  <2> HIDE DEF f
  <2>4. Len(f \o Cut) = Len(f) + Len(Cut) /\ Len(Cut) \in Nat
    BY <2>2, ConcatBegins, Zenon
  <2>5. Len(Stream) = Len(f) + Len(Cut)
    BY <2>3, <2>4, Zenon
  <2>6. Len(Cut) = Len(Stream) - n
    BY <1>1, <2>1, <2>2, <2>4, <2>5
  <2> QED BY <2>2, <2>3, <2>6 DEF f
<1> QED BY <1>2, <1>3

(* A whole message is cut where a message ends.                            *)
LEMMA WholeCut ==
  ASSUME Named, sent.to \in 0 .. Len(Stream)
  PROVE  /\ sent.to = First => Cut = After(6)
         /\ sent.to = Len(Stream) => Cut = After(11)
<1> DEFINE a == message_pack(sent.first)
           b == message_pack(sent.second)
<1>1. sent.first \in MessageT /\ sent.second \in MessageT
  BY UnpackAssumption DEF Named
<1>2. a \in Seq(Byte) /\ b \in Seq(Byte)
  BY <1>1, PackedIs, Zenon
<1>3. After(6) = b /\ After(11) = << >>
  BY AfterIs, Zenon
<1>4. Stream = a \o b /\ Stream \in Seq(Byte) /\ First = Len(a)
  BY StreamIs, Zenon DEF Stream, First
<1> HIDE DEF a, b
<1>5. ASSUME sent.to = First PROVE Cut = After(6)
  <2>1. SubSeq(a \o b, Len(a) + 1, Len(a \o b)) = b
    BY <1>2, FrontAndRest, Zenon
  <2>2. sent.to = Len(a)
    BY <1>4, <1>5, Zenon
  <2> QED BY <1>3, <1>4, <2>1, <2>2, Zenon DEF Cut
<1>6. ASSUME sent.to = Len(Stream) PROVE Cut = After(11)
  <2>1. Stream \o << >> = Stream /\ << >> \in Seq(Byte)
    BY <1>4, EmptyAround
  <2>2. SubSeq(Stream \o << >>, Len(Stream) + 1, Len(Stream \o << >>)) = << >>
    BY <1>4, <2>1, FrontAndRest, Zenon
  <2> QED BY <1>3, <1>6, <2>1, <2>2, Zenon DEF Cut
<1> QED BY <1>5, <1>6

(* What Scan finds in front of it.                                         *)
Meets(q) ==
  /\ ~ ZeroAt(q) /\ FoundHead.used # 0
  /\ EndsWhole => FoundLength # 0
  /\ FoundLength # 0 => /\ Found = MemberOf(FldAt(q), ValAt(q))
                 /\ SubSeq(FoundBody, FoundLength + 1, Len(FoundBody)) \o Cut = After(q + 1)

\* The scan meets the next field that was written.
LEMMA ScanMeets ==
  ASSUME Named, sent.to \in 0 .. Len(Stream), rem \in Seq(Byte), rem # << >>,
         NEW cur \in 1 .. 11, rem \o Cut = After(cur)
  PROVE  \E q \in cur .. 10 : Meets(q) /\ \A p \in cur .. q - 1 : ZeroAt(p)
<1>1. Cut \in Seq(Byte)
  BY CutIs
<1>2. /\ Len(rem \o Cut) = Len(rem) + Len(Cut) /\ Len(rem) \in Nat /\ Len(Cut) \in Nat
  BY <1>1, ConcatBegins, Zenon
<1>3. Len(rem) > 0
  BY <1>2, EmptySeq
<1>4. Len(After(cur)) = Len(rem) + Len(Cut)
  BY <1>2, Zenon
<1>5. After(cur) # << >>
  <2>1. Len(After(cur)) > 0
    BY <1>2, <1>3, <1>4
  <2> QED BY <2>1
<1>6. PICK q \in cur .. 10 : /\ ~ ZeroAt(q) /\ After(q) = After(cur)
                             /\ \A p \in cur .. q - 1 : ZeroAt(p)
  BY <1>5, NextFound, Zenon DEF NextField
<1> DEFINE i == FldAt(q)
           m == MsgAt(q)
           v == ValueOf(m, i)
           c == Code(i, v)
           x == After(q + 1)
<1>7. q \in 1 .. 10 /\ q + 1 \in 1 .. 11
  BY <1>6
<1>8. i \in 1 .. n_fields /\ m \in MessageT /\ c \in Seq(Byte) /\ v = ValAt(q)
  BY <1>7, PartAtIs, Zenon DEF ValAt
<1>9. x \in Seq(Byte)
  BY <1>7, AfterIs, Zenon
<1>10. /\ After(q) = << TagByte(i) >> \o (c \o x)
       /\ Len(After(q)) = 1 + Len(c) + Len(x)
  BY <1>6, <1>7, AfterStep, Zenon DEF ValAt
<1>11. rem \o Cut = << TagByte(i) >> \o (c \o x)
  BY <1>6, <1>10, Zenon
<1> HIDE DEF i, m, x
<1>12. /\ FoundHead.used # 0 /\ Len(c) >= 1
       /\ FoundLength = IF Len(rem) >= 1 + Len(c) THEN Len(c) ELSE 0
       /\ FoundLength # 0 => /\ Found = MemberOf(i, v)
                      /\ SubSeq(FoundBody, FoundLength + 1, Len(FoundBody)) \o Cut = x
  <2>1. i \in 1 .. n_fields /\ m \in MessageT
    BY <1>8
  <2>2. rem \o Cut = << TagByte(i) >> \o (Code(i, ValueOf(m, i)) \o x)
    BY <1>11
  <2> HIDE DEF v, c
  <2>3. /\ FoundHead.used # 0 /\ Len(Code(i, ValueOf(m, i))) >= 1
        /\ FoundLength = IF Len(rem) >= 1 + Len(Code(i, ValueOf(m, i)))
                  THEN Len(Code(i, ValueOf(m, i))) ELSE 0
        /\ FoundLength # 0 => /\ Found = MemberOf(i, ValueOf(m, i))
                       /\ SubSeq(FoundBody, FoundLength + 1, Len(FoundBody)) \o Cut = x
    <3>1. Fronts(i, m, Cut, x)
      BY <2>2, Zenon DEF Fronts
    <3>2. ScansTo(i, m, Cut, x)
      BY <1>1, <1>9, <2>1, <3>1, ScanTakesField, Zenon
    <3> QED BY <3>2, Zenon DEF ScansTo
  <2> QED BY <2>3, Zenon DEF c, v
<1> HIDE DEF v, c
<1>13. ASSUME EndsWhole PROVE FoundLength # 0
  <2>1. PICK e \in {6, 11} : Cut = After(e)
    BY <1>13, WholeCut DEF EndsWhole
  <2>2. Falls(q) /\ Falls(q + 1) /\ Falls(e) /\ e \in 1 .. 11
    <3>1. e \in 1 .. 11 /\ q \in 1 .. 11
      BY <2>1, <1>7
    <3> QED BY <1>7, <3>1, AfterFalls, Zenon
  <2>3. Len(After(q)) = Len(rem) + Len(Cut) /\ Len(Cut) = Len(After(e)) /\ Len(x) = Len(After(q + 1))
    BY <1>4, <1>6, <2>1, Zenon DEF x
  <2>4. q < e
    <3>1. CASE e <= q
      <4>1. q \in e .. 11
        BY <1>7, <2>1, <3>1
      <4>2. Len(After(e)) >= Len(After(q))
        BY <2>2, <4>1, Zenon DEF Falls
      <4> DEFINE lq == Len(After(q))
                 le == Len(After(e))
                 lr == Len(rem)
      <4>3. lq = lr + le /\ le >= lq /\ lr > 0 /\ le \in Nat /\ lr \in Nat
        BY <1>2, <1>3, <2>3, <4>2
      <4> HIDE DEF lq, le, lr
      <4> QED BY <4>3
    <3> QED BY <1>7, <2>1, <3>1
  <2>5. e \in q + 1 .. 11
    BY <1>7, <2>1, <2>4
  <2>6. Len(After(q + 1)) >= Len(After(e))
    BY <2>2, <2>5, Zenon DEF Falls
  <2> DEFINE lx == Len(After(q + 1))
             le == Len(After(e))
             lr == Len(rem)
             lc == Len(c)
  <2>7. /\ lx \in Nat /\ le \in Nat /\ lr \in Nat /\ lc \in Nat
        /\ 1 + lc + lx = lr + le /\ lx >= le
    <3>1. lx \in Nat /\ lc \in Nat
      BY <1>8, <1>9, LenProperties DEF x
    <3>2. lr \in Nat /\ le \in Nat
      BY <1>2, <2>3
    <3>3. Len(After(q)) = 1 + lc + lx
      BY <1>10, <2>3, Zenon
    <3>4. Len(After(q)) = lr + le
      BY <2>3, Zenon
    <3> QED BY <2>6, <3>1, <3>2, <3>3, <3>4
  <2> HIDE DEF lx, le, lr, lc
  <2>8. lr >= 1 + lc
    BY <2>7
  <2>9. FoundLength = Len(c)
    BY <1>12, <2>8 DEF lr, lc
  <2> QED BY <1>8, <1>12, <2>9, LenProperties
<1>14. Meets(q)
  BY <1>6, <1>8, <1>12, <1>13, Zenon DEF Meets, i, x
<1> QED BY <1>6, <1>14

-----------------------------------------------------------------------------
(* The members and their places.                                           *)

(* The members s are those of the fields that are not zero before place    *)
(* cur: pos has the place of each.                                         *)
PlacedIn(s, pos, cur) ==
  /\ \A k \in 1 .. Len(s) : /\ ~ ZeroAt(pos[k]) /\ pos[k] < cur
                            /\ s[k] = MemberOf(FldAt(pos[k]), ValAt(pos[k]))
  /\ \A j, k \in 1 .. Len(s) : j < k => pos[j] < pos[k]
  /\ \A p \in 1 .. cur - 1 : ~ ZeroAt(p) => \E k \in 1 .. Len(s) : pos[k] = p

Places(s, pos, cur) == pos \in Seq(1 .. 10) /\ Len(pos) = Len(s) /\ PlacedIn(s, pos, cur)

(* q is the first place from cur on with a field, and e its member.        *)
ComesNext(cur, q, e) ==
  /\ ~ ZeroAt(q) /\ e = MemberOf(FldAt(q), ValAt(q))
  /\ \A p \in cur .. q - 1 : ZeroAt(p)

\* The member that comes next has the next place.
LEMMA PlaceOne ==
  ASSUME NEW s \in Seq(Member), NEW pos, NEW cur \in 1 .. 11, Places(s, pos, cur),
         NEW q \in cur .. 10, NEW e \in Member, ComesNext(cur, q, e)
  PROVE  Places(Append(s, e), Append(pos, q), q + 1)
<1>0. /\ pos \in Seq(1 .. 10) /\ Len(pos) = Len(s) /\ PlacedIn(s, pos, cur)
      /\ ~ ZeroAt(q) /\ e = MemberOf(FldAt(q), ValAt(q))
      /\ \A p \in cur .. q - 1 : ZeroAt(p)
  BY Zenon DEF Places, ComesNext
<1> USE <1>0
<1> DEFINE l == Len(s)
           s2 == Append(s, e)
           p2 == Append(pos, q)
<1>1. l \in Nat
  BY LenProperties
<1>2. /\ s2 \in Seq(Member) /\ Len(s2) = l + 1 /\ s2[l + 1] = e
      /\ \A k \in 1 .. l : s2[k] = s[k]
  BY AppendProperties
<1>3. q \in 1 .. 10
  OBVIOUS
<1>4. /\ p2 \in Seq(1 .. 10) /\ Len(p2) = l + 1 /\ p2[l + 1] = q
      /\ \A k \in 1 .. l : p2[k] = pos[k]
  BY <1>3, AppendProperties
<1>5. \A k \in 1 .. l : pos[k] \in 1 .. 10
  BY ElementOfSeq
<1> HIDE DEF l, s2, p2
<1>6. /\ \A k \in 1 .. l : ~ ZeroAt(pos[k]) /\ pos[k] < cur
      /\ \A k \in 1 .. l : s[k] = MemberOf(FldAt(pos[k]), ValAt(pos[k]))
      /\ \A j, k \in 1 .. l : j < k => pos[j] < pos[k]
      /\ \A p \in 1 .. cur - 1 : ~ ZeroAt(p) => \E k \in 1 .. l : pos[k] = p
  BY Zenon DEF PlacedIn, l
<1>7. ASSUME NEW k \in 1 .. Len(s2)
      PROVE  /\ ~ ZeroAt(p2[k]) /\ p2[k] < q + 1
             /\ s2[k] = MemberOf(FldAt(p2[k]), ValAt(p2[k]))
  <2>1. CASE k = l + 1
    <3>1. p2[k] = q /\ s2[k] = e
      BY <1>2, <1>4, <2>1, Zenon
    <3>2. p2[k] < q + 1
      BY <3>1
    <3>3. ~ ZeroAt(p2[k]) /\ s2[k] = MemberOf(FldAt(p2[k]), ValAt(p2[k]))
      BY <3>1, Zenon
    <3> QED BY <3>2, <3>3
  <2>2. CASE k # l + 1
    <3>1. k \in 1 .. l
      BY <1>1, <1>2, <2>2
    <3>2. p2[k] = pos[k] /\ s2[k] = s[k]
      BY <1>2, <1>4, <3>1, Zenon
    <3>3. p2[k] < q + 1
      BY <1>5, <1>6, <3>1, <3>2
    <3>4. ~ ZeroAt(p2[k]) /\ s2[k] = MemberOf(FldAt(p2[k]), ValAt(p2[k]))
      BY <1>6, <3>1, <3>2, Zenon
    <3> QED BY <3>3, <3>4
  <2> QED BY <2>1, <2>2
<1>8. ASSUME NEW j \in 1 .. Len(s2), NEW k \in 1 .. Len(s2), j < k
      PROVE  p2[j] < p2[k]
  <2>1. j \in 1 .. l /\ p2[j] = pos[j]
    BY <1>1, <1>2, <1>4, <1>8
  <2>2. CASE k = l + 1
    <3> DEFINE x == pos[j]
    <3>1. x \in 1 .. 10 /\ x < cur /\ p2[j] = x
      BY <1>5, <1>6, <2>1
    <3>2. p2[k] = q
      BY <1>4, <2>2, Zenon
    <3> HIDE DEF x
    <3>3. x < q
      BY <3>1
    <3> QED BY <3>1, <3>2, <3>3
  <2>3. CASE k # l + 1
    <3>1. k \in 1 .. l
      BY <1>1, <1>2, <2>3
    <3> QED BY <1>4, <1>6, <1>8, <2>1, <3>1
  <2> QED BY <2>2, <2>3
<1>9. ASSUME NEW p \in 1 .. (q + 1) - 1, ~ ZeroAt(p)
      PROVE  \E k \in 1 .. Len(s2) : p2[k] = p
  <2>1. CASE p = q
    <3>1. l + 1 \in 1 .. Len(s2)
      BY <1>1, <1>2
    <3> QED BY <1>4, <2>1, <3>1
  <2>2. CASE p < cur
    <3>1. p \in 1 .. cur - 1
      BY <2>2
    <3>2. PICK k \in 1 .. l : pos[k] = p
      BY <1>6, <1>9, <3>1
    <3>3. k \in 1 .. Len(s2) /\ p2[k] = p
      BY <1>1, <1>2, <1>4, <3>2
    <3> QED BY <3>3
  <2>3. CASE p # q /\ ~ (p < cur)
    <3>1. p \in cur .. q - 1
      BY <2>3
    <3> QED BY <1>9, <3>1
  <2> QED BY <2>1, <2>2, <2>3
<1>10. PlacedIn(s2, p2, q + 1)
  BY <1>7, <1>8, <1>9, Zenon DEF PlacedIn
<1>11. Len(p2) = Len(s2)
  BY <1>2, <1>4
<1> QED BY <1>4, <1>10, <1>11, Zenon DEF Places, s2, p2

(* Between two members, and behind the last, there is no field.            *)
LEMMA GapAfter ==
  ASSUME NEW s \in Seq(Member), NEW pos \in Seq(1 .. 10), Len(pos) = Len(s),
         NEW cur \in 1 .. 11, PlacedIn(s, pos, cur), NEW n \in 0 .. Len(s),
         NEW r, r = (IF n = 0 THEN 0 ELSE pos[n]),
         NEW t, t = (IF n = Len(s) THEN cur ELSE pos[n + 1])
  PROVE  /\ r \in 0 .. 10 /\ t \in r + 1 .. 11
         /\ \A p \in r + 1 .. t - 1 : ZeroAt(p)
<1> DEFINE l == Len(s)
<1>1. l \in Nat
  BY LenProperties
<1>2. \A k \in 1 .. l : pos[k] \in 1 .. 10
  BY ElementOfSeq
<1>3. n \in 0 .. l /\ t = (IF n = l THEN cur ELSE pos[n + 1])
  OBVIOUS
<1> HIDE DEF l
<1>4. /\ \A k \in 1 .. l : pos[k] < cur
      /\ \A j, k \in 1 .. l : j < k => pos[j] < pos[k]
      /\ \A p \in 1 .. cur - 1 : ~ ZeroAt(p) => \E k \in 1 .. l : pos[k] = p
  BY Zenon DEF PlacedIn, l
<1>5. r \in 0 .. 10
  <2>1. CASE n = 0
    BY <2>1
  <2>2. CASE n # 0
    <3>1. n \in 1 .. l /\ r = pos[n]
      BY <1>1, <1>3, <2>2
    <3>2. pos[n] \in 1 .. 10
      BY <1>2, <3>1
    <3> QED BY <3>1, <3>2
  <2> QED BY <2>1, <2>2
<1>6. t \in r + 1 .. 11 /\ t <= cur
  <2>1. n # 0 => n \in 1 .. l /\ r = pos[n]
    BY <1>1, <1>3
  <2>2. CASE n = l
    <3>1. t = cur
      BY <1>3, <2>2
    <3>2. r < cur
      <4>1. CASE n = 0
        BY <4>1
      <4>2. CASE n # 0
        BY <1>4, <2>1, <4>2
      <4> QED BY <4>1, <4>2
    <3> QED BY <1>5, <3>1, <3>2
  <2>3. CASE n # l
    <3>1. n + 1 \in 1 .. l /\ t = pos[n + 1]
      BY <1>1, <1>3, <2>3
    <3>2. t \in 1 .. 10 /\ t < cur
      BY <1>2, <1>4, <3>1
    <3>3. r < t
      <4>1. CASE n = 0
        BY <3>2, <4>1
      <4>2. CASE n # 0
        <5>1. n \in 1 .. l /\ n < n + 1
          BY <1>3, <2>1, <4>2
        <5> QED BY <1>4, <2>1, <3>1, <4>2, <5>1
      <4> QED BY <4>1, <4>2
    <3> QED BY <1>5, <3>2, <3>3
  <2> QED BY <2>2, <2>3
<1>7. ASSUME NEW p \in r + 1 .. t - 1, ~ ZeroAt(p) PROVE FALSE
  <2>1. p \in 1 .. cur - 1
    BY <1>5, <1>6
  <2>2. PICK k \in 1 .. l : pos[k] = p
    BY <1>4, <1>7, <2>1
  <2>3. CASE k <= n
    <3>1. n \in 1 .. l /\ r = pos[n]
      BY <1>1, <1>3, <2>3
    <3>2. pos[k] <= pos[n]
      <4>1. CASE k = n
        BY <1>2, <3>1, <4>1
      <4>2. CASE k # n
        <5>1. k < n
          BY <2>3, <3>1, <4>2
        <5>2. pos[k] < pos[n]
          BY <1>4, <3>1, <5>1
        <5>3. pos[k] \in 1 .. 10 /\ pos[n] \in 1 .. 10
          BY <1>2, <3>1
        <5> DEFINE x == pos[k]
                   y == pos[n]
        <5>4. x \in 1 .. 10 /\ y \in 1 .. 10 /\ x < y
          BY <5>2, <5>3
        <5> HIDE DEF x, y
        <5>5. x <= y
          BY <5>4
        <5> QED BY <5>5 DEF x, y
      <4> QED BY <4>1, <4>2
    <3> QED BY <1>5, <2>2, <3>1, <3>2
  <2>4. CASE ~ (k <= n)
    <3>1. n + 1 \in 1 .. l /\ t = pos[n + 1]
      BY <1>1, <1>3, <2>4
    <3>2. t <= p
      <4>1. CASE k = n + 1
        BY <2>2, <3>1, <4>1
      <4>2. CASE k # n + 1
        <5>1. n + 1 < k
          BY <1>3, <2>4, <4>2
        <5>2. pos[n + 1] < pos[k]
          BY <1>4, <3>1, <5>1
        <5> QED BY <1>6, <2>2, <3>1, <5>2
      <4> QED BY <4>1, <4>2
    <3> QED BY <1>5, <1>6, <3>2
  <2> QED BY <2>3, <2>4
<1> QED BY <1>5, <1>6, <1>7

(* The place of the last field that is stored.                             *)
Reached(pos) == IF parsed = 0 THEN 0 ELSE pos[parsed]

\* What is left to read and what was cut are the bytes from place cur on; the
\* members so far are the fields before it, at the places pos; and the message
\* holds those of them that were parsed.
Track(cur, pos) ==
  /\ rem \o Cut = After(cur)
  /\ Len(pos) = Len(scanned) /\ PlacedIn(scanned, pos, cur)
  /\ \A i \in 1 .. n_fields : Held(i) = Expect(i, Reached(pos))

\* There are such places.
Tracked == \E cur \in 1 .. 11 : \E pos \in Seq(1 .. 10) : Track(cur, pos)

\* Neither refused nor out of memory.
Running == pc \in {"alloc", "scan", "parse", "done"}

\* What the places of the function say of the loops: the first ends when nothing
\* is left, the second when all members are parsed.
Phase ==
  /\ pc \in {"parse", "done"} => rem = << >>
  /\ pc = "done" => parsed = Len(scanned)
  /\ pc \in {"alloc", "scan"} =>
       parsed = 0 /\ message.data = EmptyString /\ message.key = EmptyString

\* The invariant of ReadAsSent.
ReadInv ==
  /\ Typed /\ sent.to \in 0 .. Len(Stream)
  /\ sent.from = 1 => /\ EndsWhole => pc # "refused"
                      /\ Running => Phase /\ Tracked

\* What was sent does not change.
LEMMA SentSame ==
  ASSUME UNCHANGED sent
  PROVE  /\ \A p : ZeroAt(p)' = ZeroAt(p) /\ ValAt(p)' = ValAt(p)
         /\ Cut' = Cut /\ (EndsWhole' <=> EndsWhole) /\ Stream' = Stream
<1>1. \A p : MsgAt(p)' = MsgAt(p)
  BY DEF MsgAt
<1>2. ASSUME NEW p PROVE ValAt(p)' = ValAt(p)
  BY <1>1, Zenon DEF ValAt, ValueOf
<1>3. ASSUME NEW p PROVE ZeroAt(p)' = ZeroAt(p)
  BY <1>2, Zenon DEF ZeroAt, IsZero
<1>4. Stream' = Stream
  BY Zenon DEF Stream
<1>5. Cut' = Cut
  BY <1>4, Zenon DEF Cut
<1>6. EndsWhole' <=> EndsWhole
  BY <1>4, Zenon DEF EndsWhole, First
<1> QED BY <1>2, <1>3, <1>4, <1>5, <1>6

\* Nor what follows a place.
LEMMA AfterSame ==
  ASSUME UNCHANGED sent, NEW p
  PROVE  After(p)' = After(p)
BY Zenon DEF After

\* Nor the places.
LEMMA PlacedSame ==
  ASSUME UNCHANGED sent, NEW s, s = scanned', NEW pos, NEW cur, PlacedIn(s, pos, cur)
  PROVE  PlacedIn(scanned, pos, cur)'
<1>1. \A p : ZeroAt(p)' = ZeroAt(p) /\ ValAt(p)' = ValAt(p)
  BY SentSame
<1> QED BY <1>1, Zenon DEF PlacedIn

(* Steps that read no byte and store nothing.                              *)
LEMMA TrackSame ==
  ASSUME UNCHANGED << sent, rem, scanned, parsed, message >>, Tracked
  PROVE  Tracked'
<1>1. PICK cur \in 1 .. 11, pos \in Seq(1 .. 10) : Track(cur, pos)
  BY Zenon DEF Tracked
<1>2. (rem \o Cut = After(cur))'
  BY <1>1, SentSame, AfterSame, Zenon DEF Track
<1>3. PlacedIn(scanned, pos, cur)' /\ Len(pos) = Len(scanned')
  BY <1>1, PlacedSame, Zenon DEF Track
<1>4. ASSUME NEW i \in 1 .. n_fields PROVE Held(i)' = Expect(i, Reached(pos))'
  <2>1. Held(i)' = Held(i)
    BY Zenon DEF Held, Values, TextAt, ValueOf
  <2>2. Reached(pos)' = Reached(pos)
    BY Zenon DEF Reached
  <2>3. Expect(i, Reached(pos))' = Expect(i, Reached(pos))
    <3>1. /\ ZeroAt(i + 5)' = ZeroAt(i + 5) /\ ValAt(i + 5)' = ValAt(i + 5)
          /\ ValAt(i)' = ValAt(i)
      BY SentSame
    <3> QED BY <2>2, <3>1 DEF Expect
  <2> QED BY <1>1, <2>1, <2>3, Zenon DEF Track
<1>5. Track(cur, pos)'
  BY <1>2, <1>3, <1>4, Zenon DEF Track
<1> QED BY <1>5, Zenon DEF Tracked

(* Before the first field is stored the message reads as it was set up.    *)
LEMMA HeldInScan ==
  ASSUME UNCHANGED message, message.data = EmptyString, message.key = EmptyString, NEW i
  PROVE  Held(i)' = Held(i)
<1>1. TextAt(EmptyString) = << >> /\ TextAt(EmptyString)' = << >>
  BY DEF TextAt
<1>2. TextAt(message.data)' = TextAt(message.data) /\ TextAt(message.key)' = TextAt(message.key)
  BY <1>1, Zenon DEF TextAt
<1>3. Values' = Values
  BY <1>2, Zenon DEF Values
<1> QED BY <1>3, Zenon DEF Held, ValueOf

\* Scan keeps the places.
LEMMA ScanTracks ==
  ASSUME Typed, sent.to \in 0 .. Len(Stream), Tracked, Phase, pc = "scan", rem # << >>,
         FoundLength # 0, Scans
  PROVE  Tracked' /\ Phase'
<1>1. PICK cur \in 1 .. 11, pos \in Seq(1 .. 10) : Track(cur, pos)
  BY Zenon DEF Tracked
<1>2. rem \in Seq(Byte) /\ scanned \in Seq(Member) /\ Named
  BY DEF Typed, Shape
<1>3. rem \o Cut = After(cur)
  BY <1>1, Zenon DEF Track
<1>4. PICK q \in cur .. 10 : Meets(q) /\ \A p \in cur .. q - 1 : ZeroAt(p)
  BY <1>2, <1>3, ScanMeets, Zenon
<1>5. /\ ~ ZeroAt(q) /\ Found = MemberOf(FldAt(q), ValAt(q))
      /\ SubSeq(FoundBody, FoundLength + 1, Len(FoundBody)) \o Cut = After(q + 1)
  BY <1>4, Zenon DEF Meets
<1>6. Found \in Member
  BY <1>2, ScanFinds
<1> DEFINE p2 == Append(pos, q)
<1>7. /\ p2 \in Seq(1 .. 10) /\ Len(p2) = Len(Append(scanned, Found))
      /\ PlacedIn(Append(scanned, Found), p2, q + 1)
  <2>1. Places(scanned, pos, cur)
    BY <1>1, Zenon DEF Track, Places
  <2>2. ComesNext(cur, q, Found)
    BY <1>4, <1>5, Zenon DEF ComesNext
  <2>3. Places(Append(scanned, Found), p2, q + 1)
    BY <1>2, <1>6, <2>1, <2>2, PlaceOne, Zenon
  <2> QED BY <2>3, Zenon DEF Places
<1>8. /\ scanned' = Append(scanned, Found)
      /\ rem' = SubSeq(FoundBody, FoundLength + 1, Len(FoundBody))
      /\ UNCHANGED << sent, pc, parsed, message >>
  BY Zenon DEF Scans
<1>9. parsed = 0 /\ message.data = EmptyString /\ message.key = EmptyString
  BY Zenon DEF Phase
<1> HIDE DEF p2
<1>10. (rem \o Cut = After(q + 1))'
  BY <1>5, <1>8, SentSame, AfterSame, Zenon
<1>11. PlacedIn(scanned, p2, q + 1)' /\ Len(p2) = Len(scanned')
  BY <1>7, <1>8, PlacedSame, Zenon
<1>12. ASSUME NEW i \in 1 .. n_fields PROVE Held(i)' = Expect(i, Reached(p2))'
  <2>1. Held(i)' = Held(i)
    BY <1>8, <1>9, HeldInScan, Zenon
  <2>2. Reached(p2)' = 0 /\ Reached(pos) = 0
    BY <1>8, <1>9, Zenon DEF Reached
  <2>3. Expect(i, Reached(p2))' = Expect(i, Reached(pos))
    <3>1. /\ ZeroAt(i + 5)' = ZeroAt(i + 5) /\ ValAt(i + 5)' = ValAt(i + 5)
          /\ ValAt(i)' = ValAt(i)
      BY <1>8, SentSame
    <3> QED BY <2>2, <3>1 DEF Expect
  <2> QED BY <1>1, <2>1, <2>3, Zenon DEF Track
<1>13. Track(q + 1, p2)'
  BY <1>10, <1>11, <1>12, Zenon DEF Track
<1>14. q + 1 \in 1 .. 11
  OBVIOUS
<1>15. Tracked'
  BY <1>7, <1>13, <1>14, Zenon DEF Tracked
<1>16. Phase'
  <2>1. pc' = "scan"
    BY <1>8
  <2> QED BY <1>8, <1>9, <2>1 DEF Phase
<1> QED BY <1>15, <1>16

(* Bytes that begin with whole fields are not refused.                     *)
LEMMA WholeScans ==
  ASSUME Typed, sent.to \in 0 .. Len(Stream), Tracked, rem # << >>, EndsWhole
  PROVE  FoundHead.used # 0 /\ FoundLength # 0
<1>1. PICK cur \in 1 .. 11, pos \in Seq(1 .. 10) : Track(cur, pos)
  BY Zenon DEF Tracked
<1>2. rem \in Seq(Byte) /\ Named
  BY DEF Typed, Shape
<1>3. rem \o Cut = After(cur)
  BY <1>1, Zenon DEF Track
<1>4. PICK q \in cur .. 10 : Meets(q)
  BY <1>2, <1>3, ScanMeets, Zenon
<1> QED BY <1>4, Zenon DEF Meets

\* The fields 4 and 5 are the strings.
LEMMA StringFields ==
  ASSUME NEW i \in 1 .. n_fields
  PROVE  /\ TypeOf(i) = FieldAt(i).type /\ NameOf(i) = FieldAt(i).name
         /\ TypeOf(i) = "STRING" <=> i \in 4 .. 5
<1>1. i = 1 \/ i = 2 \/ i = 3 \/ i = 4 \/ i = 5
  BY DEF n_fields
<1>2. /\ TypeOf(1) # "STRING" /\ TypeOf(2) # "STRING" /\ TypeOf(3) # "STRING"
      /\ TypeOf(4) = "STRING" /\ TypeOf(5) = "STRING"
  BY DEF TypeOf, message_t__field_descriptors
<1>3. /\ ~ (1 \in 4 .. 5) /\ ~ (2 \in 4 .. 5) /\ ~ (3 \in 4 .. 5) /\ 4 \in 4 .. 5 /\ 5 \in 4 .. 5
  OBVIOUS
<1>4. TypeOf(i) = FieldAt(i).type /\ NameOf(i) = FieldAt(i).name
  BY Zenon DEF TypeOf, NameOf, FieldAt
<1> QED BY <1>1, <1>2, <1>3, <1>4, Zenon

(* Storing the member of place q.                                          *)
LEMMA StoreTracks ==
  ASSUME Typed, Shape', Tracked, UNCHANGED << sent, rem, scanned >>, parsed' = parsed + 1,
         parsed < Len(scanned), NEW cur \in 1 .. 11, NEW pos \in Seq(1 .. 10), Track(cur, pos),
         NEW q \in 1 .. 10, q = pos[parsed + 1], ~ ZeroAt(q), NEW v,
         message' = [message EXCEPT ![NameOf(FldAt(q))] = v],
         (IF TypeOf(FldAt(q)) = "STRING" THEN TextAt(v) ELSE v) = ValAt(q)
  PROVE  Tracked'
<1> DEFINE f == FldAt(q)
           r == Reached(pos)
<1>1. /\ scanned \in Seq(Member) /\ Named /\ parsed \in 0 .. Len(scanned) /\ IsMessage(message)
      /\ Len(scanned) \in Nat
  BY LenProperties DEF Typed, Shape
<1>2. f \in 1 .. n_fields
  BY <1>1, PartAtIs
<1>3. Len(pos) = Len(scanned) /\ PlacedIn(scanned, pos, cur)
  BY Zenon DEF Track
<1>4. /\ r \in 0 .. 10 /\ q \in r + 1 .. 11 /\ \A p \in r + 1 .. q - 1 : ZeroAt(p)
  <2>1. r = IF parsed = 0 THEN 0 ELSE pos[parsed]
    BY DEF Reached
  <2>2. q = IF parsed = Len(scanned) THEN cur ELSE pos[parsed + 1]
    BY <1>1
  <2> HIDE DEF r
  <2> QED BY <1>1, <1>3, <2>1, <2>2, GapAfter
<1> HIDE DEF r
<1>5. ASSUME NEW i \in 1 .. n_fields
      PROVE  Expect(i, q) = IF i = f THEN ValAt(q) ELSE Expect(i, r)
  <2>1. q - 1 \in r .. 10 /\ \A p \in r + 1 .. q - 1 : ZeroAt(p)
    BY <1>4
  <2>2. Expect(i, q - 1) = Expect(i, r)
    BY <1>4, <2>1, ExpectSame
  <2>3. Expect(i, q) = IF i = f THEN ValAt(q) ELSE Expect(i, q - 1)
    BY ExpectStep
  <2> QED BY <2>2, <2>3, Zenon
<1>6. IsMessage(message')
  BY DEF Shape, IsMessage
<1>7. ASSUME NEW i \in 1 .. n_fields
      PROVE  Held(i)' = Expect(i, q)
  <2>1. Held(i)' = IF i = f THEN (IF TypeOf(f) = "STRING" THEN TextAt(v) ELSE v) ELSE Held(i)
    BY <1>1, <1>2, <1>6, HeldAfterStore
  <2>2. Held(i) = Expect(i, r)
    BY Zenon DEF Track, r
  <2> QED BY <1>5, <2>1, <2>2, Zenon
<1>8. Reached(pos)' = q
  <2>1. parsed' # 0 /\ parsed' = parsed + 1
    BY <1>1
  <2> QED BY <2>1, Zenon DEF Reached
<1>9. ASSUME NEW i \in 1 .. n_fields PROVE Held(i)' = Expect(i, Reached(pos))'
  <2>1. Expect(i, Reached(pos))' = Expect(i, q)
    <3>1. /\ ZeroAt(i + 5)' = ZeroAt(i + 5) /\ ValAt(i + 5)' = ValAt(i + 5)
          /\ ValAt(i)' = ValAt(i)
      BY SentSame
    <3> QED BY <1>8, <3>1 DEF Expect
  <2> QED BY <1>7, <2>1, Zenon
<1>10. (rem \o Cut = After(cur))'
  BY SentSame, AfterSame, Zenon DEF Track
<1>11. PlacedIn(scanned, pos, cur)' /\ Len(pos) = Len(scanned')
  BY <1>3, PlacedSame, Zenon
<1>12. Track(cur, pos)'
  BY <1>9, <1>10, <1>11, Zenon DEF Track
<1> QED BY <1>12, Zenon DEF Tracked

\* ParseMember keeps the places.
LEMMA ParseTracks ==
  ASSUME Typed, Shape', Tracked, Phase, ParseMember
  PROVE  pc' # "refused" /\ (Running' => Tracked' /\ Phase')
<1>1. PICK cur \in 1 .. 11, pos \in Seq(1 .. 10) : Track(cur, pos)
  BY Zenon DEF Tracked
<1> DEFINE k == parsed + 1
           q == pos[k]
           f == FldAt(q)
           v == ValAt(q)
<1>2. /\ scanned \in Seq(Member) /\ Named /\ parsed \in 0 .. Len(scanned) /\ Len(scanned) \in Nat
      /\ parsed < Len(scanned) /\ k \in 1 .. Len(scanned) /\ pc = "parse"
  BY LenProperties DEF Typed, Shape, ParseMember
<1>3. Len(pos) = Len(scanned) /\ PlacedIn(scanned, pos, cur)
  BY <1>1, Zenon DEF Track
<1>4. q \in 1 .. 10
  BY <1>2, <1>3, ElementOfSeq
<1>5. ~ ZeroAt(q) /\ scanned[k] = MemberOf(f, v)
  BY <1>2, <1>3, Zenon DEF PlacedIn
<1>6. f \in 1 .. n_fields /\ MsgAt(q) \in MessageT /\ v = ValueOf(MsgAt(q), f)
  BY <1>2, <1>4, PartAtIs, Zenon DEF ValAt
<1>7. /\ scanned[k].field = f /\ scanned[k].wire = WireOf(f)
      /\ scanned[k].data = Code(f, v) /\ scanned[k].pref = PrefOf(f, v)
  BY <1>5 DEF MemberOf
<1> HIDE DEF k, q, f, v
<1>8. Field(k) = FieldAt(f) /\ ~ IsUnknown(k)
  <2>1. f # 0
    BY <1>6 DEF n_fields
  <2> QED BY <1>7, <2>1, Zenon DEF Field, FieldAt, IsUnknown
<1>9. member_value(FieldAt(f), Code(f, v), PrefOf(f, v)) = v
  BY <1>6, ValueOfCode, Zenon
<1>10. /\ TypeOf(f) = FieldAt(f).type /\ NameOf(f) = FieldAt(f).name
       /\ TypeOf(f) = "STRING" <=> f \in 4 .. 5
  BY <1>6, StringFields
<1>11. wire_type_fits(Field(k), scanned[k].wire)
  <2>1. CASE f \in 4 .. 5
    <3>1. FieldAt(f).type = "STRING" /\ WireOf(f) = 2
      BY <1>10, <2>1 DEF WireOf
    <3> QED BY <1>7, <1>8, <3>1, Zenon DEF wire_type_fits, WIRE_TYPE_LENGTH_PREFIXED
  <2>2. CASE ~ (f \in 4 .. 5)
    <3>1. FieldAt(f).type # "STRING" /\ WireOf(f) = 0
      BY <1>10, <2>2 DEF WireOf
    <3> QED BY <1>7, <1>8, <3>1, Zenon DEF wire_type_fits, WIRE_TYPE_VARINT
  <2> QED BY <2>1, <2>2
<1>12. /\ parsed' = k /\ UNCHANGED << sent, rem, scanned, which_slab, in_slab_index >>
       /\ IF Field(k).type = "STRING" THEN StoreString(k) ELSE StoreNumber(k)
  BY <1>8, <1>11, Zenon DEF ParseMember, k
<1>13. ASSUME NEW w, message' = [message EXCEPT ![NameOf(f)] = w],
              (IF TypeOf(f) = "STRING" THEN TextAt(w) ELSE w) = v
       PROVE  Tracked'
  <2>1. UNCHANGED << sent, rem, scanned >> /\ parsed' = parsed + 1 /\ q = pos[parsed + 1]
    BY <1>12 DEF k, q
  <2> QED BY <1>1, <1>2, <1>4, <1>5, <1>13, <2>1, StoreTracks, Zenon DEF f, v
<1>14. ASSUME pc' = pc PROVE Phase'
  <2>1. rem = << >>
    BY <1>2 DEF Phase
  <2> QED BY <1>2, <1>12, <1>14, <2>1 DEF Phase
<1>15. CASE Field(k).type = "STRING"
  <2>1. CASE Stored(k, Bytes(k)) /\ pc' = pc
    <3>1. message' = [message EXCEPT ![NameOf(f)] = Bytes(k)]
      BY <1>8, <1>10, <2>1, Zenon DEF Stored
    <3>2. TextAt(Bytes(k)) = v
      <4>1. Bytes(k) \notin {NULL, EmptyString} /\ Bytes(k)[2] = k
        BY DEF Bytes, NULL, EmptyString
      <4>2. TextAt(Bytes(k)) = member_value(FieldAt(scanned[k].field), scanned[k].data, scanned[k].pref)
        BY <4>1, Zenon DEF TextAt, FieldAt
      <4> QED BY <1>7, <1>9, <4>2, Zenon
    <3>3. Tracked'
      BY <1>8, <1>10, <1>13, <1>15, <3>1, <3>2, Zenon
    <3> QED BY <1>2, <1>14, <2>1, <3>3
  <2>2. CASE pc' = "nomem"
    BY <2>2 DEF Running
  <2> QED BY <1>12, <1>15, <2>1, <2>2, Zenon DEF StoreString
<1>16. CASE Field(k).type # "STRING"
  <2>1. message' = [message EXCEPT ![NameOf(f)] = v] /\ pc' = pc
    <3>1. PrefOf(f, v) = 0
      BY <1>8, <1>10, <1>16 DEF PrefOf
    <3>2. member_value(Field(k), scanned[k].data, 0) = v
      BY <1>7, <1>8, <1>9, <3>1, Zenon
    <3>3. Stored(k, member_value(Field(k), scanned[k].data, 0)) /\ pc' = pc
      BY <1>12, <1>16, Zenon DEF StoreNumber
    <3> QED BY <1>8, <1>10, <3>2, <3>3, Zenon DEF Stored
  <2>2. Tracked'
    BY <1>8, <1>10, <1>13, <1>16, <2>1, Zenon
  <2> QED BY <1>2, <1>14, <2>1, <2>2
<1> QED BY <1>15, <1>16

-----------------------------------------------------------------------------
(* Unpack: what is read was sent.                                          *)

\* The invariant holds at first,
LEMMA ReadStarts == UnpackInit => ReadInv
<1> SUFFICES ASSUME UnpackInit PROVE ReadInv
  OBVIOUS
<1>1. Typed
  BY TypedStarts
<1>2. Named
  BY <1>1 DEF Typed
<1>3. sent.to \in 0 .. Len(Stream)
  <2>1. PICK m1 \in Messages, m2 \in Messages :
          LET len == Len(message_pack(m1) \o message_pack(m2))
          IN  \E i \in 1 .. len + 1 : \E j \in i - 1 .. len :
                sent = [first |-> m1, second |-> m2, from |-> i, to |-> j]
    BY Zenon DEF UnpackInit
  <2> DEFINE len == Len(message_pack(m1) \o message_pack(m2))
  <2>2. PICK i \in 1 .. len + 1 : \E j \in i - 1 .. len :
                sent = [first |-> m1, second |-> m2, from |-> i, to |-> j]
    BY <2>1
  <2>3. PICK j \in i - 1 .. len :
                sent = [first |-> m1, second |-> m2, from |-> i, to |-> j]
    BY <2>2
  <2>4. sent.first = m1 /\ sent.second = m2 /\ sent.to = j
    BY <2>3
  <2>5. Len(Stream) = len
    BY <2>4, Zenon DEF Stream
  <2> HIDE DEF len
  <2>6. len \in Nat
    BY <1>2, <2>5, StreamIs
  <2>7. j \in 0 .. len
    BY <2>2, <2>3, <2>6
  <2> QED BY <2>4, <2>5, <2>7
<1>4. Phase
  BY DEF UnpackInit, Phase
<1>5. ASSUME sent.from = 1 PROVE Tracked
  <2>1. rem \o Cut = After(1)
    <3>1. rem = SubSeq(Stream, 1, sent.to)
      BY <1>5, Zenon DEF UnpackInit, data
    <3>2. SubSeq(Stream, 1, sent.to) \o Cut = Stream
      BY <1>2, <1>3, CutIs, Zenon
    <3> QED BY <1>2, <3>1, <3>2, AfterIs, Zenon
  <2> DEFINE pos == << >>
  <2>2. pos \in Seq(1 .. 10) /\ scanned = << >> /\ Len(scanned) = 0 /\ Len(pos) = 0
    BY DEF UnpackInit
  <2>3. PlacedIn(scanned, pos, 1)
    <3>1. 1 .. Len(scanned) = {} /\ 1 .. 1 - 1 = {}
      BY <2>2
    <3> QED BY <3>1, Zenon DEF PlacedIn
  <2>4. Reached(pos) = 0
    BY DEF Reached, UnpackInit
  <2>5. ASSUME NEW i \in 1 .. n_fields PROVE Held(i) = Expect(i, Reached(pos))
    <3>1. ~ (i + 5 <= 0) /\ ~ (i <= 0)
      BY DEF n_fields
    <3>2. Expect(i, Reached(pos)) = ValueOf(init_value, i)
      BY <2>4, <3>1, Zenon DEF Expect
    <3>3. IsMessage(message)
      BY <1>1 DEF Typed, Shape
    <3>4. Held(i) = IF TypeOf(i) = "STRING" THEN TextAt(message[NameOf(i)]) ELSE message[NameOf(i)]
      BY <3>3, HeldIs
    <3>5. TypeOf(i) = "STRING" <=> i \in 4 .. 5
      BY StringFields
    <3>6. message[NameOf(i)] = IF i \in 4 .. 5 THEN EmptyString ELSE 0
      <4>1. i = 1 \/ i = 2 \/ i = 3 \/ i = 4 \/ i = 5
        BY DEF n_fields
      <4>2. /\ NameOf(1) = "opcode" /\ NameOf(2) = "c_type" /\ NameOf(3) = "data_size"
            /\ NameOf(4) = "data" /\ NameOf(5) = "key"
        BY DEF NameOf, message_t__field_descriptors
      <4>3. /\ message.opcode = 0 /\ message.c_type = 0 /\ message.data_size = 0
            /\ message.data = EmptyString /\ message.key = EmptyString
        BY DEF UnpackInit
      <4>4. ~ (1 \in 4 .. 5) /\ ~ (2 \in 4 .. 5) /\ ~ (3 \in 4 .. 5) /\ 4 \in 4 .. 5 /\ 5 \in 4 .. 5
        OBVIOUS
      <4> QED BY <4>1, <4>2, <4>3, <4>4, Zenon
    <3>7. TextAt(EmptyString) = << >>
      BY DEF TextAt
    <3>8. ValueOf(init_value, i) = IF i \in 4 .. 5 THEN << >> ELSE 0
      BY InitialValues
    <3>9. CASE i \in 4 .. 5
      BY <3>2, <3>4, <3>5, <3>6, <3>7, <3>8, <3>9, Zenon
    <3>10. CASE ~ (i \in 4 .. 5)
      BY <3>2, <3>4, <3>5, <3>6, <3>8, <3>10, Zenon
    <3> QED BY <3>9, <3>10
  <2>6. Track(1, pos)
    <3>1. Len(pos) = Len(scanned)
      BY <2>2
    <3> QED BY <2>1, <2>3, <2>5, <3>1, Zenon DEF Track
  <2>7. 1 \in 1 .. 11
    OBVIOUS
  <2> QED BY <2>2, <2>6, <2>7, Zenon DEF Tracked
<1>6. pc # "refused"
  BY DEF UnpackInit
<1> QED BY <1>1, <1>3, <1>4, <1>5, <1>6, Zenon DEF ReadInv

\* and every step keeps it.
LEMMA StepReads ==
  ASSUME ReadInv, [UnpackNext]_unpackVars
  PROVE  ReadInv'
<1>1. Typed'
  BY StepTyped DEF ReadInv
<1>2. UNCHANGED sent
  BY DEF UnpackNext, Alloc, Scan, CleanupDuringScan, AllocUnknown, ParseMember, Return, Invoke, Send,
         unpackVars
<1>3. sent'.to \in 0 .. Len(Stream')
  BY <1>2, SentSame, Zenon DEF ReadInv
<1>4. ASSUME sent.from = 1
      PROVE  (EndsWhole => pc' # "refused") /\ (Running' => Phase' /\ Tracked')
  <2>1. /\ EndsWhole => pc # "refused"
        /\ Running => Phase /\ Tracked
        /\ Typed /\ sent.to \in 0 .. Len(Stream)
    BY <1>4, Zenon DEF ReadInv
  <2>2. CASE Scan
    <3>1. pc = "scan" /\ rem # << >> /\ Running
      BY <2>2, ScanAppends DEF Running
    <3>2. CASE FoundLength # 0 /\ Scans
      <4>1. Tracked' /\ Phase'
        BY <2>1, <3>1, <3>2, ScanTracks, Zenon
      <4>2. pc' = "scan"
        BY <3>1, <3>2 DEF Scans
      <4> QED BY <4>1, <4>2
    <3>3. CASE (FoundHead.used = 0 \/ FoundLength = 0) /\ CleanupDuringScan("refused")
      <4>1. pc' = "refused"
        BY <3>3 DEF CleanupDuringScan
      <4>2. ~ EndsWhole
        BY <2>1, <3>1, <3>3, WholeScans, Zenon
      <4> QED BY <4>1, <4>2 DEF Running
    <3>4. CASE CleanupDuringScan("nomem")
      <4>1. pc' = "nomem"
        BY <3>4 DEF CleanupDuringScan
      <4> QED BY <4>1 DEF Running
    <3> QED BY <2>2, <3>2, <3>3, <3>4, ScanAppends, Zenon
  <2>3. CASE ParseMember
    <3>1. Running
      BY <2>3 DEF ParseMember, Running
    <3>2. Shape'
      BY <1>1 DEF Typed
    <3> QED BY <2>1, <2>3, <3>1, <3>2, ParseTracks, Zenon
  <2>4. CASE Alloc \/ AllocUnknown \/ Return \/ Invoke \/ Send \/ UNCHANGED unpackVars
    <3>1. UNCHANGED << sent, rem, scanned, parsed, message >>
      BY <2>4 DEF Alloc, AllocUnknown, Return, Invoke, Send, unpackVars
    <3>2. /\ \/ pc' = pc
             \/ pc = "alloc" /\ pc' = "scan"
             \/ pc = "scan" /\ rem = << >> /\ pc' = "parse"
             \/ pc = "parse" /\ parsed = Len(scanned) /\ pc' = "done"
             \/ pc' \in {"invoked", "released", "unsent"}
             \/ pc' = "nomem"
      BY <2>4 DEF Alloc, AllocUnknown, Return, Invoke, Send, unpackVars
    <3>3. Running' => Running
      BY <3>2 DEF Running
    <3>4. ASSUME Running' PROVE Phase' /\ Tracked'
      <4>1. Phase /\ Tracked
        BY <2>1, <3>3, <3>4
      <4>2. Tracked'
        BY <3>1, <4>1, TrackSame
      <4>3. Phase'
        BY <3>1, <3>2, <3>4, <4>1 DEF Phase, Running
      <4> QED BY <4>2, <4>3
    <3>5. EndsWhole => pc' # "refused"
      BY <2>1, <3>2
    <3> QED BY <3>4, <3>5
  <2> QED BY <2>2, <2>3, <2>4 DEF UnpackNext
<1>5. EndsWhole' <=> EndsWhole
  BY <1>2, SentSame
<1>6. sent'.from = sent.from
  BY <1>2
<1> QED BY <1>1, <1>3, <1>4, <1>5, <1>6, Zenon DEF ReadInv

-----------------------------------------------------------------------------
(* What a message that is returned holds.                                  *)
LEMMA ReturnedReads ==
  ASSUME ReadInv, sent.from = 1, Returned
  PROVE  \E cur \in 1 .. 11 : Cut = After(cur) /\ \A i \in 1 .. n_fields : Held(i) = Expect(i, cur - 1)
<1>1. Running /\ Phase /\ Tracked
  BY DEF Running, Returned, ReadInv
<1>2. rem = << >> /\ parsed = Len(scanned)
  BY <1>1 DEF Phase, Returned
<1>3. PICK cur \in 1 .. 11, pos \in Seq(1 .. 10) : Track(cur, pos)
  BY <1>1, Zenon DEF Tracked
<1>4. scanned \in Seq(Member) /\ Named /\ Len(scanned) \in Nat
  BY LenProperties DEF ReadInv, Typed, Shape
<1>5. Cut = After(cur)
  <2>1. Cut \in Seq(Byte)
    BY <1>4, CutIs DEF ReadInv
  <2>2. << >> \o Cut = Cut
    BY <2>1, EmptyAround
  <2> QED BY <1>2, <1>3, <2>2, Zenon DEF Track
<1> DEFINE r == Reached(pos)
<1>6. /\ r \in 0 .. 10 /\ cur \in r + 1 .. 11 /\ \A p \in r + 1 .. cur - 1 : ZeroAt(p)
  <2>1. r = IF Len(scanned) = 0 THEN 0 ELSE pos[Len(scanned)]
    BY <1>2, Zenon DEF Reached
  <2>2. cur = IF Len(scanned) = Len(scanned) THEN cur ELSE pos[Len(scanned) + 1]
    OBVIOUS
  <2>3. Len(scanned) \in 0 .. Len(scanned)
    BY <1>4
  <2>4. Len(pos) = Len(scanned) /\ PlacedIn(scanned, pos, cur)
    BY <1>3, Zenon DEF Track
  <2> HIDE DEF r
  <2> QED BY <1>4, <2>1, <2>2, <2>3, <2>4, GapAfter
<1> HIDE DEF r
<1>7. ASSUME NEW i \in 1 .. n_fields PROVE Held(i) = Expect(i, cur - 1)
  <2>1. Held(i) = Expect(i, r)
    BY <1>3, Zenon DEF Track, r
  <2>2. cur - 1 \in r .. 10
    BY <1>6
  <2>3. Expect(i, cur - 1) = Expect(i, r)
    BY <1>6, <2>2, ExpectSame
  <2> QED BY <2>1, <2>3
<1> QED BY <1>5, <1>7

(* Equal rests are at places with no field between them.                   *)
LEMMA SameRest ==
  ASSUME Named, NEW a \in 1 .. 11, NEW b \in a .. 11, After(a) = After(b),
         NEW i \in 1 .. n_fields
  PROVE  Expect(i, a - 1) = Expect(i, b - 1)
<1>1. Falls(a)
  BY AfterFalls
<1>2. Len(After(a)) = Len(After(b))
  BY Zenon
<1>3. \A p \in a .. b - 1 : ZeroAt(p)
  BY <1>1, <1>2, Zenon DEF Falls
<1>4. /\ a - 1 \in 0 .. 10 /\ b - 1 \in a - 1 .. 10
      /\ \A p \in (a - 1) + 1 .. b - 1 : ZeroAt(p)
  BY <1>3
<1> QED BY <1>4, ExpectSame

\* Of all fields, from any place on.
LEMMA SameRests ==
  ASSUME Named, NEW a \in 1 .. 11, NEW b \in 1 .. 11, After(a) = After(b),
         NEW i \in 1 .. n_fields
  PROVE  Expect(i, a - 1) = Expect(i, b - 1)
<1>1. CASE b \in a .. 11
  BY <1>1, SameRest
<1>2. CASE a \in b .. 11
  BY <1>2, SameRest, Zenon
<1> QED BY <1>1, <1>2

\* Messages with the same fields are the same.
LEMMA SameMessages ==
  ASSUME NEW a, NEW b, IsMessage(a), IsMessage(b), \A i \in 1 .. n_fields : ValueOf(a, i) = ValueOf(b, i)
  PROVE  a = b
<1>1. \A m : /\ ValueOf(m, 1) = m.opcode /\ ValueOf(m, 2) = m.c_type /\ ValueOf(m, 3) = m.data_size
             /\ ValueOf(m, 4) = m.data /\ ValueOf(m, 5) = m.key
  BY DEF ValueOf, FieldAt, message_t__field_descriptors
<1>2. 1 \in 1 .. n_fields /\ 2 \in 1 .. n_fields /\ 3 \in 1 .. n_fields /\ 4 \in 1 .. n_fields
      /\ 5 \in 1 .. n_fields
  BY DEF n_fields
<1>3. /\ a.opcode = b.opcode /\ a.c_type = b.c_type /\ a.data_size = b.data_size
      /\ a.data = b.data /\ a.key = b.key
  BY <1>1, <1>2, Zenon
<1> QED BY <1>3, Zenon DEF IsMessage

\* The fields of a message, and of one that lacks some.
LEMMA MessagesAre ==
  /\ \A m \in MessageT : IsMessage(m)
  /\ \A m, is : IsMessage(Only(m, is))
  /\ \A m : \A is \in SUBSET (1 .. n_fields) : \A i \in 1 .. n_fields :
       ValueOf(Only(m, is), i) = IF i \in is THEN ValueOf(m, i) ELSE ValueOf(init_value, i)
<1>1. \A m \in MessageT : IsMessage(m)
  BY DEF MessageT, IsMessage
<1>2. DOMAIN init_value = {"opcode", "c_type", "data_size", "data", "key"}
  BY DEF init_value
<1>3. ASSUME NEW m, NEW is PROVE IsMessage(Only(m, is))
  <2> DEFINE o == Only(m, is)
  <2>1. o = [name \in {"opcode", "c_type", "data_size", "data", "key"} |-> o[name]]
    BY <1>2 DEF Only
  <2> HIDE DEF o
  <2>2. IsMessage(o)
    BY <2>1 DEF IsMessage
  <2> QED BY <2>2 DEF o
<1>4. ASSUME NEW m, NEW is \in SUBSET (1 .. n_fields), NEW i \in 1 .. n_fields
      PROVE  ValueOf(Only(m, is), i) = IF i \in is THEN ValueOf(m, i) ELSE ValueOf(init_value, i)
  <2>1. NameOf(i) \in DOMAIN init_value
    BY <1>2, FieldNames
  <2>2. Only(m, is)[NameOf(i)] =
          IF \E j \in is : NameOf(j) = NameOf(i) THEN m[NameOf(i)] ELSE init_value[NameOf(i)]
    BY <2>1 DEF Only, NameOf
  <2>3. (\E j \in is : NameOf(j) = NameOf(i)) <=> i \in is
    BY NamesApart
  <2> QED BY <2>2, <2>3, Zenon DEF ValueOf, FieldAt, NameOf
<1> QED BY <1>1, <1>3, <1>4

\* What is read is a message.
LEMMA ValuesAre ==
  ASSUME Typed
  PROVE  IsMessage(Values)
<1> DEFINE d == TextAt(message["data"])
           k == TextAt(message["key"])
<1>1. Values = Reading(message, d, k)
  BY Zenon DEF Values, Reading
<1>2. IsMessage(message)
  BY DEF Typed, Shape
<1> HIDE DEF d, k
<1>3. IsMessage(Reading(message, d, k))
  <2>1. DOMAIN message = {"opcode", "c_type", "data_size", "data", "key"}
    BY <1>2 DEF IsMessage
  <2> DEFINE o == Reading(message, d, k)
  <2>2. DOMAIN o = DOMAIN message /\ o = [name \in DOMAIN message |-> o[name]]
    BY DEF Reading
  <2>3. o = [name \in {"opcode", "c_type", "data_size", "data", "key"} |-> o[name]]
    BY <2>1, <2>2
  <2> HIDE DEF o
  <2>4. IsMessage(o)
    BY <2>3 DEF IsMessage
  <2> QED BY <2>4 DEF o
<1> QED BY <1>1, <1>3

\* A message that arrived whole,
LEMMA ReadsWhole == ReadInv => WholeIsRead
<1> SUFFICES ASSUME ReadInv, sent.from = 1, sent.to = First
             PROVE  ~ Refused /\ (Returned => Values = sent.first)
  BY Zenon DEF WholeIsRead
<1>1. ~ Refused
  BY DEF ReadInv, EndsWhole, Refused
<1>2. ASSUME Returned PROVE Values = sent.first
  <2>1. Typed /\ Named /\ sent.to \in 0 .. Len(Stream) /\ sent.first \in MessageT
    BY UnpackAssumption DEF ReadInv, Typed, Named
  <2>2. PICK cur \in 1 .. 11 :
          Cut = After(cur) /\ \A i \in 1 .. n_fields : Held(i) = Expect(i, cur - 1)
    BY <1>2, ReturnedReads, Zenon
  <2>3. After(cur) = After(6)
    BY <2>1, <2>2, WholeCut, Zenon
  <2>4. ASSUME NEW i \in 1 .. n_fields PROVE ValueOf(Values, i) = ValueOf(sent.first, i)
    <3>1. Expect(i, cur - 1) = Expect(i, 6 - 1)
      <4>1. 6 \in 1 .. 11
        OBVIOUS
      <4> QED BY <2>1, <2>3, <4>1, SameRests, Zenon
    <3>2. ~ (i + 5 <= 6 - 1) /\ i <= 6 - 1 /\ i <= 5
      BY DEF n_fields
    <3>3. Expect(i, 6 - 1) = ValAt(i)
      BY <3>2, Zenon DEF Expect
    <3>4. ValAt(i) = ValueOf(sent.first, i)
      BY <3>2, Zenon DEF ValAt, MsgAt, FldAt
    <3> QED BY <2>2, <3>1, <3>3, <3>4, Zenon DEF Held
  <2> QED BY <2>1, <2>4, ValuesAre, MessagesAre, SameMessages, Zenon
<1> QED BY <1>1, <1>2

\* two that arrived together,
LEMMA ReadsLater == ReadInv => LaterMessageWins
<1> SUFFICES ASSUME ReadInv, sent.from = 1, sent.to = Len(Stream)
             PROVE  LET zero == {i \in 1 .. n_fields : FieldPack(sent.second, i) = << >>}
                    IN  /\ ~ Refused
                        /\ Returned =>
                             \A i \in 1 .. n_fields :
                               LET field == message_t__field_descriptors[i]
                               IN  Values[field.name] =
                                     IF i \in zero THEN sent.first[field.name]
                                     ELSE sent.second[field.name]
  BY Zenon DEF LaterMessageWins
<1> DEFINE zero == {i \in 1 .. n_fields : FieldPack(sent.second, i) = << >>}
<1>1. ~ Refused
  BY DEF ReadInv, EndsWhole, Refused
<1>2. ASSUME Returned, NEW i \in 1 .. n_fields
      PROVE  ValueOf(Values, i) = IF i \in zero THEN ValueOf(sent.first, i) ELSE ValueOf(sent.second, i)
  <2>1. Named /\ sent.to \in 0 .. Len(Stream)
    BY DEF ReadInv, Typed
  <2>2. PICK cur \in 1 .. 11 :
          Cut = After(cur) /\ \A j \in 1 .. n_fields : Held(j) = Expect(j, cur - 1)
    BY <1>2, ReturnedReads, Zenon
  <2>3. After(cur) = After(11)
    BY <2>1, <2>2, WholeCut, Zenon
  <2>4. Expect(i, cur - 1) = Expect(i, 11 - 1)
    <3>1. 11 \in 1 .. 11
      OBVIOUS
    <3> QED BY <2>1, <2>3, <3>1, SameRests, Zenon
  <2>5. i + 5 \in 1 .. 10 /\ i + 5 <= 11 - 1 /\ ~ (i + 5 <= 5) /\ (i + 5) - 5 = i /\ i <= 11 - 1 /\ i <= 5
    BY DEF n_fields
  <2>6. FldAt(i + 5) = i /\ MsgAt(i + 5) = sent.second /\ FldAt(i) = i /\ MsgAt(i) = sent.first
    BY <2>5, Zenon DEF FldAt, MsgAt
  <2>7. i \in zero <=> ZeroAt(i + 5)
    <3>1. PartAt(i + 5) = FieldPack(sent.second, i)
      BY <2>6, Zenon DEF PartAt
    <3>2. PartAt(i + 5) = IF ZeroAt(i + 5) THEN << >> ELSE << TagByte(i) >> \o Code(i, ValAt(i + 5))
      BY <2>1, <2>5, <2>6, PartAtIs, Zenon
    <3>3. << TagByte(i) >> \o Code(i, ValAt(i + 5)) # << >>
      <4> DEFINE c == Code(i, ValAt(i + 5))
                 t == TagByte(i)
      <4>1. c \in Seq(Byte) /\ t \in Byte
        BY <2>1, <2>5, <2>6, PartAtIs, Zenon
      <4> HIDE DEF c, t
      <4>2. << t >> \in Seq(Byte) /\ Len(<< t >>) = 1
        BY <4>1
      <4>3. Len(<< t >> \o c) = Len(<< t >>) + Len(c) /\ Len(c) \in Nat
        BY <4>1, <4>2, ConcatBegins
      <4>4. Len(<< t >> \o c) # 0
        BY <4>2, <4>3
      <4>5. << t >> \o c # << >>
        BY <4>4
      <4> QED BY <4>5, Zenon DEF c, t
    <3>4. FieldPack(sent.second, i) = << >> <=> ZeroAt(i + 5)
      BY <3>1, <3>2, <3>3, Zenon
    <3> QED BY <3>4
  <2>8. Expect(i, 11 - 1) = IF ZeroAt(i + 5) THEN ValAt(i) ELSE ValAt(i + 5)
    <3>1. CASE ZeroAt(i + 5)
      BY <2>5, <3>1, Zenon DEF Expect
    <3>2. CASE ~ ZeroAt(i + 5)
      BY <2>5, <3>2, Zenon DEF Expect
    <3> QED BY <3>1, <3>2, Zenon
  <2>9. ValAt(i) = ValueOf(sent.first, i) /\ ValAt(i + 5) = ValueOf(sent.second, i)
    BY <2>6, Zenon DEF ValAt
  <2>10. ValueOf(Values, i) = Expect(i, 11 - 1)
    BY <2>2, <2>4, Zenon DEF Held
  <2> HIDE DEF zero
  <2> QED BY <2>7, <2>8, <2>9, <2>10, Zenon
<1> QED BY <1>1, <1>2, Zenon DEF ValueOf, FieldAt

\* and one that was cut.
LEMMA ReadsCut == ReadInv => CutIsNoticed
<1> SUFFICES ASSUME ReadInv, sent.from = 1, sent.to < First, Returned
             PROVE  /\ \E n \in 0 .. n_fields : Values = Only(sent.first, 1 .. n)
                    /\ Values # sent.first
  BY Zenon DEF CutIsNoticed
<1>1. Typed /\ Named /\ sent.to \in 0 .. Len(Stream)
  BY DEF ReadInv, Typed
<1>2. PICK cur \in 1 .. 11 :
        Cut = After(cur) /\ \A i \in 1 .. n_fields : Held(i) = Expect(i, cur - 1)
  BY ReturnedReads, Zenon
<1>3. Len(After(cur)) > Len(After(6))
  <2>1. Len(Cut) = Len(Stream) - sent.to
    BY <1>1, CutIs
  <2>2. Len(Stream) = First + Len(After(6)) /\ First \in Nat /\ Len(After(6)) \in Nat
    BY <1>1, StreamIs
  <2>3. Len(After(cur)) = Len(Cut)
    BY <1>2, Zenon
  <2> QED BY <1>1, <2>1, <2>2, <2>3
<1>4. cur <= 5
  <2>1. CASE cur \in 6 .. 11
    <3>1. Falls(6)
      <4>1. 6 \in 1 .. 11
        OBVIOUS
      <4> QED BY <1>1, <4>1, AfterFalls, Zenon
    <3>2. Len(After(6)) >= Len(After(cur))
      BY <2>1, <3>1, Zenon DEF Falls
    <3>3. Len(After(6)) \in Nat /\ Len(After(cur)) \in Nat
      <4>1. After(cur) \in Seq(Byte)
        BY <1>1, AfterIs, Zenon
      <4> QED BY <1>1, <4>1, StreamIs, LenProperties
    <3> DEFINE x == Len(After(6))
               y == Len(After(cur))
    <3>4. x \in Nat /\ y \in Nat /\ x >= y /\ y > x
      BY <1>3, <3>2, <3>3
    <3> HIDE DEF x, y
    <3> QED BY <3>4
  <2> QED BY <2>1
<1> DEFINE n == cur - 1
<1>5. n \in 0 .. n_fields /\ 1 .. n \in SUBSET (1 .. n_fields)
  BY <1>4 DEF n_fields
<1>6. sent.first \in MessageT
  BY <1>1, UnpackAssumption DEF Named
<1>7. ASSUME NEW i \in 1 .. n_fields
      PROVE  ValueOf(Values, i) = IF i \in 1 .. n THEN ValueOf(sent.first, i) ELSE ValueOf(init_value, i)
  <2>1. ~ (i + 5 <= n) /\ (i <= n <=> i \in 1 .. n) /\ i <= 5
    BY <1>4 DEF n_fields
  <2>2. ValAt(i) = ValueOf(sent.first, i)
    BY <2>1, Zenon DEF ValAt, MsgAt, FldAt
  <2>3. Expect(i, n) = IF i <= n THEN ValAt(i) ELSE ValueOf(init_value, i)
    BY <2>1, Zenon DEF Expect
  <2>4. ValueOf(Values, i) = Expect(i, n)
    BY <1>2, Zenon DEF Held
  <2> HIDE DEF n
  <2> QED BY <2>1, <2>2, <2>3, <2>4, Zenon
<1>8. Values = Only(sent.first, 1 .. n)
  <2> DEFINE is == 1 .. n
             o == Only(sent.first, is)
  <2>1. is \in SUBSET (1 .. n_fields)
    BY <1>5, Zenon
  <2>2. ASSUME NEW i \in 1 .. n_fields PROVE ValueOf(Values, i) = IF i \in is THEN ValueOf(sent.first, i) ELSE ValueOf(init_value, i)
    BY <1>7, Zenon
  <2> HIDE DEF is
  <2>3. \A i \in 1 .. n_fields : ValueOf(o, i) = IF i \in is THEN ValueOf(sent.first, i) ELSE ValueOf(init_value, i)
    BY <2>1, MessagesAre, Zenon
  <2>4. IsMessage(o)
    BY <2>1, MessagesAre, Zenon
  <2>5. IsMessage(Values)
    BY <1>1, ValuesAre, Zenon
  <2> HIDE DEF o
  <2>6. \A i \in 1 .. n_fields : ValueOf(Values, i) = ValueOf(o, i)
    BY <2>2, <2>3, Zenon
  <2>7. Values = o
    BY <2>4, <2>5, <2>6, SameMessages, Zenon
  <2> QED BY <2>7, Zenon DEF o, is
<1>9. ASSUME Values = sent.first PROVE FALSE
  <2>1. ASSUME NEW p \in cur .. 6 - 1 PROVE ZeroAt(p)
    <3>1. p \in 1 .. n_fields /\ ~ (p \in 1 .. n) /\ p <= 5
      BY <1>4 DEF n_fields
    <3>2. ValueOf(sent.first, p) = ValueOf(init_value, p)
      BY <1>7, <1>9, <3>1, Zenon
    <3>3. ValAt(p) = ValueOf(sent.first, p)
      BY <3>1, Zenon DEF ValAt, MsgAt, FldAt
    <3> QED BY <3>1, <3>2, <3>3, ZeroIs
  <2>2. Falls(cur) /\ 6 \in cur .. 11
    BY <1>1, <1>4, AfterFalls
  <2>3. Len(After(cur)) = Len(After(6))
    BY <2>1, <2>2, Zenon DEF Falls
  <2> QED BY <1>1, <1>3, <2>3, StreamIs
<1> QED BY <1>5, <1>8, <1>9, Zenon

(* Whatever is sent and wherever the read ends, a message that was         *)
(* delivered whole is read with the values it was sent with, two that are  *)
(* found together merge in one way, and one that is cut is never taken for *)
(* the whole (message_t__unpack on what the one read of network_receive    *)
(* delivers).                                                              *)
THEOREM WhatIsReadWasSent == UnpackSpec => []ReadAsSent
<1>1. UnpackInit => ReadInv
  BY ReadStarts
<1>2. ReadInv /\ [UnpackNext]_unpackVars => ReadInv'
  BY StepReads
<1>3. ReadInv => ReadAsSent
  <2>1. ReadInv => UnpackTypeOK
    BY TypedIs DEF ReadInv
  <2> QED BY <2>1, ReadsWhole, ReadsLater, ReadsCut, Zenon DEF ReadAsSent
<1> QED BY <1>1, <1>2, <1>3, PTL DEF UnpackSpec
=============================================================================
