---------------------------- MODULE AlgorithmProofs ----------------------------
(***************************************************************************)
(* Theorems about the algorithms behind the handshakes' keys:              *)
(* base64_encode and base64_decode for every input, the blocks Sha1 cuts a *)
(* message of any length into, the eighty rounds hashBlock does over each, *)
(* and the digest in the answer that comes of them.                        *)
(***************************************************************************)
EXTENDS AcceptKey, TLAPS

Byte == 0..255

-------------------------------------------------------------------------------
(* Base64: the bits of a group. *)

\* Three bytes give four digits.
LEMMA DigitRange ==
  ASSUME NEW a3 \in [1..3 -> Byte], NEW q \in 1..4
  PROVE  a3_to_a4(a3)[q] \in 0..63
<1>1. a3[1] \in Byte /\ a3[2] \in Byte /\ a3[3] \in Byte
  OBVIOUS
<1>2. CASE q = 1  BY <1>1, <1>2 DEF a3_to_a4, Byte
<1>3. CASE q = 2  BY <1>1, <1>3 DEF a3_to_a4, Byte
<1>4. CASE q = 3  BY <1>1, <1>4 DEF a3_to_a4, Byte
<1>5. CASE q = 4  BY <1>1, <1>5 DEF a3_to_a4, Byte
<1> QED BY <1>2, <1>3, <1>4, <1>5

\* Each byte is spread over two digits.
LEMMA FirstByte ==
  ASSUME NEW a \in Byte, NEW b \in Byte
  PROVE  ((a \div 4) * 4 + ((((a % 4) * 16 + (b \div 16)) \div 16) % 4)) % 256 = a
  BY DEF Byte

LEMMA SecondByte ==
  ASSUME NEW a \in Byte, NEW b \in Byte, NEW c \in Byte
  PROVE  ((((a % 4) * 16 + (b \div 16)) % 16) * 16
            + ((((b % 16) * 4 + (c \div 64)) \div 4) % 16)) % 256 = b
<1>1. ((a % 4) * 16 + (b \div 16)) % 16 = b \div 16
  BY DEF Byte
<1>2. (((b % 16) * 4 + (c \div 64)) \div 4) % 16 = b % 16
  BY DEF Byte
<1> QED BY <1>1, <1>2 DEF Byte

LEMMA ThirdByte ==
  ASSUME NEW b \in Byte, NEW c \in Byte
  PROVE  ((((b % 16) * 4 + (c \div 64)) % 4) * 64 + (c % 64)) % 256 = c
<1>1. ((b % 16) * 4 + (c \div 64)) % 4 = c \div 64
  BY DEF Byte
<1> QED BY <1>1 DEF Byte

\* A byte is decoded from the two digits it is in, whatever the others are.
LEMMA ByteBack ==
  ASSUME NEW a3 \in [1..3 -> Byte], NEW a4, NEW p \in 1..3,
         a4[p] = a3_to_a4(a3)[p], a4[p + 1] = a3_to_a4(a3)[p + 1]
  PROVE  a4_to_a3(a4)[p] = a3[p]
<1>1. a3[1] \in Byte /\ a3[2] \in Byte /\ a3[3] \in Byte
  OBVIOUS
<1>2. CASE p = 1
  <2>1. /\ a4[1] = a3[1] \div 4
        /\ a4[2] = (a3[1] % 4) * 16 + (a3[2] \div 16)
    BY <1>2 DEF a3_to_a4
  <2> QED BY <1>1, <1>2, <2>1, FirstByte DEF a4_to_a3
<1>3. CASE p = 2
  <2>1. /\ a4[2] = (a3[1] % 4) * 16 + (a3[2] \div 16)
        /\ a4[3] = (a3[2] % 16) * 4 + (a3[3] \div 64)
    BY <1>3 DEF a3_to_a4
  <2> QED BY <1>1, <1>3, <2>1, SecondByte DEF a4_to_a3
<1>4. CASE p = 3
  <2>1. /\ a4[3] = (a3[2] % 16) * 4 + (a3[3] \div 64)
        /\ a4[4] = a3[3] % 64
    BY <1>4 DEF a3_to_a4
  <2> QED BY <1>1, <1>4, <2>1, ThirdByte DEF a4_to_a3
<1> QED BY <1>2, <1>3, <1>4

-------------------------------------------------------------------------------
(* Base64: the places of bytes and digits. *)

LEMMA PlaceOfFour ==
  ASSUME NEW k \in Nat \ {0}
  PROVE  /\ Nth(k, 4) \in Nat \ {0} /\ Place(k, 4) \in 1..4
         /\ k = 4 * (Nth(k, 4) - 1) + Place(k, 4)
  BY DEF Nth, Place

LEMMA PlaceOfThree ==
  ASSUME NEW k \in Nat \ {0}
  PROVE  /\ Nth(k, 3) \in Nat \ {0} /\ Place(k, 3) \in 1..3
         /\ k = 3 * (Nth(k, 3) - 1) + Place(k, 3)
  BY DEF Nth, Place

LEMMA FourIsUnique ==
  ASSUME NEW n \in Nat \ {0}, NEW q \in 1..4
  PROVE  Nth(4 * (n - 1) + q, 4) = n /\ Place(4 * (n - 1) + q, 4) = q
  BY DEF Nth, Place

LEMMA GroupType ==
  ASSUME NEW s \in Seq(Byte), NEW n \in Nat \ {0}
  PROVE  Group(s, n, 3, 0) \in [1..3 -> Byte]
<1>1. ASSUME NEW k \in 1..3, 3 * (n - 1) + k <= Len(s)
      PROVE  s[3 * (n - 1) + k] \in Byte
  <2>1. 3 * (n - 1) + k \in 1..Len(s)
    BY <1>1
  <2> QED BY <2>1
<1>2. 0 \in Byte
  BY DEF Byte
<1> QED BY <1>1, <1>2 DEF Group

\* What is at place q of group n.
LEMMA Encoded ==
  ASSUME NEW s \in Seq(Byte), NEW n \in 1..Groups(s, 3), NEW q \in 1..4
  PROVE  /\ 4 * (n - 1) + q \in 1..4 * Groups(s, 3)
         /\ base64_encode(s)[4 * (n - 1) + q] =
              IF 4 * (n - 1) + q <= Len(s) + Groups(s, 3) THEN a3_to_a4(Group(s, n, 3, 0))[q] ELSE Pad
<1>1. Groups(s, 3) \in Nat /\ Len(s) \in Nat
  BY DEF Groups
<1>2. n \in Nat \ {0} /\ 4 * (n - 1) + q \in 1..4 * Groups(s, 3)
  BY <1>1
<1>3. base64_encode(s)[4 * (n - 1) + q] = EncodeGroup(s, n)[q]
  BY <1>2, FourIsUnique DEF base64_encode
<1>4. q <= InGroup(s, n, 3) + 1 <=> 4 * (n - 1) + q <= Len(s) + Groups(s, 3)
  BY <1>1 DEF InGroup, Groups
<1> QED BY <1>2, <1>3, <1>4 DEF EncodeGroup

LEMMA EncodedType ==
  ASSUME NEW s \in Seq(Byte)
  PROVE  /\ Groups(s, 3) \in Nat /\ Len(s) \in Nat
         /\ Len(base64_encode(s)) = 4 * Groups(s, 3)
         /\ base64_encode(s) \in Seq(0..64)
         /\ DOMAIN base64_encode(s) = 1..4 * Groups(s, 3)
         /\ \A k \in 1..4 * Groups(s, 3) : base64_encode(s)[k] = Pad <=> k > Len(s) + Groups(s, 3)
<1>1. Groups(s, 3) \in Nat /\ Len(s) \in Nat
  BY DEF Groups
<1>2. DOMAIN base64_encode(s) = 1..4 * Groups(s, 3)
  BY DEF base64_encode
<1>3. ASSUME NEW k \in 1..4 * Groups(s, 3)
      PROVE  /\ base64_encode(s)[k] \in 0..64
             /\ base64_encode(s)[k] = Pad <=> k > Len(s) + Groups(s, 3)
  <2> DEFINE n == Nth(k, 4)
             q == Place(k, 4)
  <2>1. n \in 1..Groups(s, 3) /\ q \in 1..4 /\ k = 4 * (n - 1) + q
    <3>1. k \in Nat \ {0}
      BY <1>1
    <3>2. n \in Nat \ {0} /\ q \in 1..4 /\ k = 4 * (n - 1) + q
      BY <3>1, PlaceOfFour
    <3>3. k <= 4 * Groups(s, 3)
      BY <1>1
    <3> HIDE DEF n, q
    <3> QED BY <1>1, <3>2, <3>3
  <2> HIDE DEF n, q
  <2>2. a3_to_a4(Group(s, n, 3, 0))[q] \in 0..63
    <3>1. Group(s, n, 3, 0) \in [1..3 -> Byte]
      BY <1>1, <2>1, GroupType
    <3> QED BY <2>1, <3>1, DigitRange
  <2>3. base64_encode(s)[k] =
          IF k <= Len(s) + Groups(s, 3) THEN a3_to_a4(Group(s, n, 3, 0))[q] ELSE Pad
    BY <2>1, Encoded
  <2>4. CASE k <= Len(s) + Groups(s, 3)
    <3>1. base64_encode(s)[k] \in 0..63
      BY <2>2, <2>3, <2>4
    <3>2. base64_encode(s)[k] # Pad /\ base64_encode(s)[k] \in 0..64
      <4>1. \A v \in 0..63 : v # Pad /\ v \in 0..64
        BY DEF Pad
      <4> QED BY <3>1, <4>1
    <3>3. k \in Nat
      BY <1>1
    <3> QED BY <1>1, <2>4, <3>2, <3>3
  <2>5. CASE ~(k <= Len(s) + Groups(s, 3))
    <3>1. base64_encode(s)[k] = 64
      BY <2>3, <2>5 DEF Pad
    <3> QED BY <1>1, <2>5, <3>1 DEF Pad
  <2> QED BY <2>4, <2>5
<1>4. base64_encode(s) \in Seq(0..64) /\ Len(base64_encode(s)) = 4 * Groups(s, 3)
  <2>1. base64_encode(s) = [k \in 1..4 * Groups(s, 3) |-> base64_encode(s)[k]]
    BY DEF base64_encode
  <2> DEFINE e == base64_encode(s)
             m == 4 * Groups(s, 3)
  <2>2. m \in Nat /\ (\A k \in 1..m : e[k] \in 0..64) /\ e = [k \in 1..m |-> e[k]]
    BY <1>1, <1>3, <2>1
  <2> HIDE DEF e, m
  <2>3. e \in [1..m -> 0..64]
    BY <2>2
  <2>4. e \in Seq(0..64) /\ Len(e) = m
    BY <2>2, <2>3
  <2> QED BY <2>4 DEF e, m
<1> QED BY <1>1, <1>2, <1>3, <1>4

\* The padding of an encoding is at its end.
LEMMA DigitsOfEncoding ==
  ASSUME NEW s \in Seq(Byte)
  PROVE  /\ Digits(base64_encode(s)) \in Seq(0..64)
         /\ Len(Digits(base64_encode(s))) = Len(s) + Groups(s, 3)
         /\ \A k \in 1..Len(s) + Groups(s, 3) : Digits(base64_encode(s))[k] = base64_encode(s)[k]
<1> DEFINE e == base64_encode(s)
           m == Len(s) + Groups(s, 3)
           pads == {k \in DOMAIN e : e[k] = Pad}
<1>1. /\ m \in Nat /\ Groups(s, 3) \in Nat /\ m <= 4 * Groups(s, 3)
      /\ 4 * Groups(s, 3) \in Nat
  BY EncodedType DEF Groups
<1>2. /\ Len(e) = 4 * Groups(s, 3) /\ e \in Seq(0..64) /\ DOMAIN e = 1..4 * Groups(s, 3)
      /\ \A k \in 1..4 * Groups(s, 3) : e[k] = Pad <=> k > m
  BY EncodedType
<1> HIDE DEF e, m
<1>3. CASE pads = {}
  <2>1. m = 4 * Groups(s, 3)
    <3>1. SUFFICES ASSUME m # 4 * Groups(s, 3) PROVE FALSE
      OBVIOUS
    <3>2. 4 * Groups(s, 3) \in 1..4 * Groups(s, 3) /\ 4 * Groups(s, 3) > m
      BY <1>1, <3>1
    <3> QED BY <1>2, <1>3, <3>2
  <2>2. Digits(e) = e
    BY <1>3 DEF Digits
  <2> QED BY <1>2, <2>1, <2>2 DEF e, m
<1>4. CASE pads # {}
  <2> DEFINE first == CHOOSE k \in pads : \A j \in pads : k <= j
  <2>1. m + 1 \in pads /\ \A j \in pads : j \in Nat /\ m + 1 <= j
    <3>1. \A j \in pads : j \in Nat /\ m + 1 <= j /\ j <= 4 * Groups(s, 3)
      BY <1>1, <1>2
    <3>2. m + 1 \in 1..4 * Groups(s, 3) /\ m + 1 > m
      BY <1>1, <1>4, <3>1
    <3> QED BY <1>2, <3>1, <3>2
  <2>2. first = m + 1
    <3> HIDE DEF pads
    <3>1. first \in pads /\ \A j \in pads : first <= j
      BY <2>1
    <3> HIDE DEF first
    <3> QED BY <1>1, <2>1, <3>1
  <2>3. Digits(e) = SubSeq(e, 1, m)
    <3>1. Digits(e) = SubSeq(e, 1, first - 1)
      BY <1>4 DEF Digits
    <3> HIDE DEF first
    <3>2. first - 1 = m
      BY <1>1, <2>2
    <3> QED BY <3>1, <3>2
  <2>4. m <= Len(e)
    BY <1>1, <1>2
  <2>5. /\ SubSeq(e, 1, m) \in Seq(0..64) /\ Len(SubSeq(e, 1, m)) = m
        /\ \A k \in 1..m : SubSeq(e, 1, m)[k] = e[k]
    BY <1>1, <1>2, <2>4
  <2> QED BY <2>3, <2>5 DEF e, m
<1> QED BY <1>3, <1>4

\* What base64_encode wrote, base64_decode gives back.
LEMMA DecodedIsInput ==
  ASSUME NEW s \in Seq(Byte)
  PROVE  base64_decode(base64_encode(s)) = s
<1> DEFINE e == base64_encode(s)
           d == Digits(e)
           G == Groups(s, 3)
           L == Len(s)
<1>1. L \in Nat /\ G \in Nat /\ L <= 3 * G /\ 3 * G < L + 3
  BY DEF Groups
<1>2. /\ Len(d) = L + G /\ d \in Seq(0..64)
      /\ \A k \in 1..L + G : d[k] = e[k]
  BY DigitsOfEncoding
<1>3. DecodedLength(d) = L
  <2>1. CASE L = 0
    <3>1. d = <<>>
      BY <1>1, <1>2, <2>1
    <3> QED BY <2>1, <3>1 DEF DecodedLength
  <2>2. CASE L # 0
    <3>1. d # <<>>
      BY <1>1, <1>2, <2>2
    <3> HIDE DEF d, G, L
    <3>2. Groups(d, 4) = G
      BY <1>1, <1>2, <2>2 DEF Groups
    <3>3. InGroup(d, G, 4) = L + G - 4 * (G - 1)
      BY <1>1, <1>2, <2>2 DEF InGroup
    <3> QED BY <1>1, <3>1, <3>2, <3>3 DEF DecodedLength
  <2> QED BY <2>1, <2>2
<1>4. ASSUME NEW k \in 1..L
      PROVE  a4_to_a3(Group(d, Nth(k, 3), 4, NoDigit))[Place(k, 3)] = s[k]
  <2> DEFINE n == Nth(k, 3)
             p == Place(k, 3)
             a3 == Group(s, n, 3, 0)
             a4 == Group(d, n, 4, NoDigit)
  <2>1. k \in Nat \ {0}
    OBVIOUS
  <2>2. n \in Nat \ {0} /\ p \in 1..3 /\ k = 3 * (n - 1) + p
    BY <2>1, PlaceOfThree
  <2>3. a3 \in [1..3 -> Byte]
    BY <2>2, GroupType
  <2>4. a3[p] = s[k]
    BY <1>1, <2>2 DEF Group
  <2>5. n \in 1..G /\ 4 * (n - 1) + p + 1 <= L + G
    <3> HIDE DEF n, p, L, G
    <3>1. 3 * (n - 1) + p <= L
      BY <1>1, <2>2
    <3>2. n <= G
      BY <1>1, <2>2, <3>1
    <3> QED BY <1>1, <2>2, <3>1, <3>2
  <2>6. ASSUME NEW q \in 1..4, q <= p + 1 PROVE a4[q] = a3_to_a4(a3)[q]
    <3> HIDE DEF n, p, L, G
    <3>1. q \in 1..4 /\ 4 * (n - 1) + q \in 1..L + G
      BY <1>1, <2>2, <2>5, <2>6
    <3> USE DEF n, p, L, G
    <3>2. a4[q] = d[4 * (n - 1) + q]
      BY <1>1, <1>2, <3>1 DEF Group
    <3>3. 4 * (n - 1) + q <= L + G
      BY <3>1
    <3>4. e[4 * (n - 1) + q] =
            IF 4 * (n - 1) + q <= L + G THEN a3_to_a4(a3)[q] ELSE Pad
      BY <2>5, Encoded
    <3> QED BY <1>2, <3>1, <3>2, <3>3, <3>4
  <2>7. a4[p] = a3_to_a4(a3)[p] /\ a4[p + 1] = a3_to_a4(a3)[p + 1]
    BY <2>2, <2>6
  <2> HIDE DEF n, p, a3, a4
  <2>8. a4_to_a3(a4)[p] = a3[p]
    BY <2>2, <2>3, <2>7, ByteBack
  <2> QED BY <2>4, <2>8 DEF n, p, a4
<1>5. base64_decode(e) = [k \in 1..L |-> a4_to_a3(Group(d, Nth(k, 3), 4, NoDigit))[Place(k, 3)]]
  BY <1>3 DEF base64_decode
<1>6. base64_decode(e) = [k \in 1..L |-> s[k]]
  BY <1>4, <1>5
<1>7. s = [k \in 1..L |-> s[k]]
  OBVIOUS
<1> QED BY <1>6, <1>7

-------------------------------------------------------------------------------
(* Base64: the digits that RFC 4648 asks for, and the lengths. *)

\* The bits of three bytes, cut into sixes.
LEMMA BitsOfGroup ==
  ASSUME NEW a \in Byte, NEW b \in Byte, NEW c \in Byte
  PROVE  /\ (65536 * a + 256 * b + c) \div 262144 = a \div 4
         /\ ((65536 * a + 256 * b + c) \div 4096) % 64 = (a % 4) * 16 + (b \div 16)
         /\ ((65536 * a + 256 * b + c) \div 64) % 64 = (b % 16) * 4 + (c \div 64)
         /\ (65536 * a + 256 * b + c) % 64 = c % 64
<1>0. \A x \in Nat, y \in 0..63 : (64 * x + y) % 64 = y
  BY SMT
<1>1. (65536 * a + 256 * b + c) \div 262144 = a \div 4
  BY SMT DEF Byte
<1>2. ((65536 * a + 256 * b + c) \div 4096) % 64 = (a % 4) * 16 + (b \div 16)
  <2>1. (65536 * a + 256 * b + c) \div 4096 = 16 * a + (b \div 16)
    BY SMT DEF Byte
  <2>2. 16 * a = 64 * (a \div 4) + (a % 4) * 16 /\ a \div 4 \in Nat
    BY SMT DEF Byte
  <2>3. (a % 4) * 16 + (b \div 16) \in 0..63
    BY SMT DEF Byte
  <2>4. (65536 * a + 256 * b + c) \div 4096 = 64 * (a \div 4) + ((a % 4) * 16 + (b \div 16))
    BY SMT, <2>1, <2>2 DEF Byte
  <2> QED BY <1>0, <2>2, <2>3, <2>4
<1>3. ((65536 * a + 256 * b + c) \div 64) % 64 = (b % 16) * 4 + (c \div 64)
  <2>1. (65536 * a + 256 * b + c) \div 64 = 64 * (16 * a + (b \div 16)) + ((b % 16) * 4 + (c \div 64))
    BY SMT DEF Byte
  <2>2. (b % 16) * 4 + (c \div 64) \in 0..63 /\ 16 * a + (b \div 16) \in Nat
    BY SMT DEF Byte
  <2> QED BY <1>0, <2>1, <2>2
<1>4. (65536 * a + 256 * b + c) % 64 = c % 64
  BY SMT DEF Byte
<1> QED BY <1>1, <1>2, <1>3, <1>4

LEMMA GroupAsRfc4648 ==
  ASSUME NEW s \in Seq(Byte), NEW n \in 1..Groups(s, 3)
  PROVE  SubSeq(base64_encode(s), 4 * n - 3, 4 * n) = ReferenceGroup(s, n)
<1> DEFINE e == base64_encode(s)
           G == Groups(s, 3)
           L == Len(s)
           a3 == Group(s, n, 3, 0)
           bits == 65536 * a3[1] + 256 * a3[2] + a3[3]
           digits == << bits \div 262144, (bits \div 4096) % 64, (bits \div 64) % 64, bits % 64 >>
<1>1. L \in Nat /\ G \in Nat /\ L <= 3 * G /\ 3 * G < L + 3 /\ n \in Nat \ {0} /\ n <= G
  BY DEF Groups
<1>2. a3 \in [1..3 -> Byte]
  BY <1>1, GroupType
<1>3. digits = a3_to_a4(a3)
  <2>1. a3[1] \in Byte /\ a3[2] \in Byte /\ a3[3] \in Byte
    BY <1>2
  <2> HIDE DEF a3
  <2> QED BY <2>1, BitsOfGroup DEF a3_to_a4
<1>4. ASSUME NEW k \in 1..4
      PROVE  e[4 * (n - 1) + k] = ReferenceGroup(s, n)[k]
  <2>1. e[4 * (n - 1) + k] = IF 4 * (n - 1) + k <= L + G THEN a3_to_a4(a3)[k] ELSE Pad
    BY Encoded
  <2>2. 4 * (n - 1) + k <= L + G <=> k = 1 \/ 3 * (n - 1) + k - 1 <= L
    <3> HIDE DEF L, G
    <3> QED BY <1>1
  <2>3. ReferenceGroup(s, n) =
          [i \in 1..4 |-> IF i = 1 \/ 3 * (n - 1) + i - 1 <= L THEN digits[i] ELSE Pad]
    BY DEF ReferenceGroup
  <2> HIDE DEF digits
  <2> QED BY <1>3, <2>1, <2>2, <2>3
<1>5. SubSeq(e, 4 * n - 3, 4 * n) = [k \in 1..4 |-> e[4 * (n - 1) + k]]
  <2>1. e \in Seq(0..64) /\ Len(e) = 4 * G
    BY EncodedType
  <2>2. 4 * n - 3 \in 1..Len(e) /\ 4 * n \in 1..Len(e)
    <3> HIDE DEF e, G
    <3> QED BY <1>1, <2>1
  <2> HIDE DEF e
  <2>3. SubSeq(e, 4 * n - 3, 4 * n) = [k \in 1..4 * n - (4 * n - 3) + 1 |-> e[(4 * n - 3) + k - 1]]
    BY <1>1, <2>1, <2>2
  <2>4. 4 * n - (4 * n - 3) + 1 = 4
    BY <1>1
  <2>5. \A k \in 1..4 : (4 * n - 3) + k - 1 = 4 * (n - 1) + k
    BY <1>1
  <2> QED BY <2>3, <2>4, <2>5
<1>6. ReferenceGroup(s, n) = [k \in 1..4 |-> ReferenceGroup(s, n)[k]]
  BY DEF ReferenceGroup
<1>7. [k \in 1..4 |-> e[4 * (n - 1) + k]] = [k \in 1..4 |-> ReferenceGroup(s, n)[k]]
  BY <1>4
<1> QED BY <1>5, <1>6, <1>7

\* What fits an int is left as it is.
LEMMA FitsInt ==
  ASSUME NEW n \in Nat, n <= MaxInt
  PROVE  AsInt(n) = n
  BY IntAssumption DEF AsInt

\* base64_enc_len counts the groups.
LEMMA LengthOfText ==
  ASSUME NEW n \in Nat, 4 * ((n + 2) \div 3) <= MaxInt
  PROVE  base64_enc_len(n) = 4 * ((n + 2) \div 3)
<1>1. n + 2 \in Nat /\ n + 2 <= MaxInt /\ n <= MaxInt
  BY IntAssumption
<1>2. AsInt(n) = n /\ AsInt(n + 2) = n + 2
  BY <1>1, FitsInt
<1>3. Quotient(n + 2, 3) = (n + 2) \div 3 /\ 4 * ((n + 2) \div 3) \in Nat
  BY DEF Quotient
<1> QED BY <1>2, <1>3, FitsInt DEF base64_enc_len

\* base64_dec_len finds at the end of an encoding what base64_encode has padded.
LEMMA PadsOfText ==
  ASSUME NEW s \in Seq(Byte), s # <<>>, NEW before \in Nat
  PROVE  PadsAtEnd(base64_encode(s), before) = 3 * Groups(s, 3) - Len(s)
<1> DEFINE e == base64_encode(s)
           G == Groups(s, 3)
           m == Len(s) + G
           others == {k \in 1..Len(e) : e[k] # Pad}
           last == CHOOSE k \in others : \A j \in others : j <= k
<1>1. m \in Nat /\ G \in Nat /\ m <= 4 * G /\ Len(s) \in Nat /\ Len(s) = m - G /\ m > 0
  <2>1. Len(s) \in Nat /\ Len(s) > 0
    OBVIOUS
  <2> QED BY <2>1 DEF Groups
<1>2. Len(e) = 4 * G /\ \A k \in 1..4 * G : e[k] = Pad <=> k > m
  BY EncodedType
<1> HIDE DEF e, m, G
<1>3. others = 1..m
  <2>1. \A k \in 1..m : k \in 1..4 * G /\ ~(k > m)
    BY <1>1
  <2>2. \A k \in 1..4 * G : ~(k > m) => k \in 1..m
    BY <1>1
  <2> QED BY <1>2, <2>1, <2>2
<1>4. PadsAtEnd(e, before) = IF others = {} THEN Len(e) + before ELSE Len(e) - last
  BY DEF PadsAtEnd
<1> HIDE DEF others
<1>5. m \in others /\ \A j \in others : j \in Nat /\ j <= m
  BY <1>1, <1>3
<1>6. last \in others /\ \A j \in others : j <= last
  BY <1>5
<1> HIDE DEF last
<1>7. last = m
  BY <1>1, <1>5, <1>6
<1>8. PadsAtEnd(e, before) = 3 * G - Len(s)
  BY <1>1, <1>2, <1>4, <1>5, <1>7
<1> QED BY <1>8 DEF e, G

\* What an int cannot hold comes back smaller, and the quotient with it.
LEMMA SmallerQuotient ==
  ASSUME NEW n \in Nat, 8 * n > MaxInt
  PROVE  /\ Quotient(AsInt(8 * n), 8) \in Int /\ Quotient(AsInt(8 * n), 8) < n
         /\ Quotient(AsInt(8 * n), 8) \in 2 - MaxInt..MaxInt
<1> DEFINE w == AsInt(8 * n)
           width == 2 * (MaxInt + 1)
           r == (8 * n + MaxInt + 1) % width
<1>1. MaxInt \in Nat /\ MaxInt >= 32767 /\ width \in Nat /\ width > 0 /\ n > 0
  BY IntAssumption
<1>2. r \in 0..width - 1
  <2> HIDE DEF width
  <2> QED BY <1>1
<1>3. w = r - (MaxInt + 1)
  BY <1>1 DEF AsInt
<1> HIDE DEF r
<1>4. w \in Int /\ w <= MaxInt /\ w >= -(MaxInt + 1)
  BY <1>1, <1>2, <1>3
<1> HIDE DEF w, width
<1>5. CASE w >= 0
  <2>1. Quotient(w, 8) = w \div 8
    BY <1>5 DEF Quotient
  <2>2. w \div 8 \in 0..MaxInt /\ w \div 8 < n
    BY <1>1, <1>4, <1>5
  <2> QED BY <1>1, <2>1, <2>2 DEF w
<1>6. CASE w < 0
  <2>1. Quotient(w, 8) = -((-w) \div 8)
    BY <1>4, <1>6 DEF Quotient
  <2>2. (-w) \div 8 \in 0..MaxInt - 2
    BY <1>1, <1>4, <1>6
  <2> QED BY <1>1, <2>1, <2>2 DEF w
<1> QED BY <1>4, <1>5, <1>6

\* The empty text's length is what happens to lie before it, with a minus.
LEMMA LengthOfNothing ==
  ASSUME NEW before \in 0..MaxInt
  PROVE  base64_dec_len(<<>>, before) = -before
<1>1. PadsAtEnd(<<>>, before) = before
  <2>1. {k \in 1..Len(<<>>) : <<>>[k] # Pad} = {} /\ Len(<<>>) = 0
    OBVIOUS
  <2> QED BY <2>1, IntAssumption DEF PadsAtEnd
<1>2. Len(<<>>) = 0 /\ AsInt(0) = 0 /\ Quotient(0, 8) = 0
  BY IntAssumption DEF AsInt, Quotient
<1>3. AsInt(0 - before) = -before
  BY IntAssumption DEF AsInt
<1> QED BY <1>1, <1>2, <1>3 DEF base64_dec_len

\* base64_dec_len takes from the text's length what base64_encode has padded, and
\* is right exactly where six times the length fits an int.
LEMMA LengthOfInput ==
  ASSUME NEW s \in Seq(Byte), s # <<>>, NEW before \in Nat
  PROVE  Len(s) = base64_dec_len(base64_encode(s), before)
           <=> 6 * Len(base64_encode(s)) <= MaxInt
<1> DEFINE e == base64_encode(s)
           G == Groups(s, 3)
           pads == PadsAtEnd(e, before)
           q == Quotient(AsInt(24 * G), 8)
<1>1. G \in Nat /\ Len(s) \in Nat /\ Len(s) > 0 /\ Len(s) <= 3 * G /\ 3 * G <= Len(s) + 2
  <2>1. Len(s) \in Nat /\ Len(s) > 0
    OBVIOUS
  <2> QED BY <2>1 DEF Groups
<1>2. Len(e) = 4 * G /\ pads = 3 * G - Len(s)
  BY EncodedType, PadsOfText
<1> HIDE DEF e, G, pads
<1>3. 6 * Len(e) = 24 * G
  BY <1>1, <1>2
<1>4. base64_dec_len(e, before) = AsInt(q - pads)
  BY <1>3 DEF base64_dec_len, pads
<1>5. CASE 24 * G <= MaxInt
  <2>1. AsInt(24 * G) = 24 * G
    BY <1>1, <1>5, FitsInt
  <2>2. Quotient(24 * G, 8) = 3 * G
    BY <1>1 DEF Quotient
  <2>3. q - pads = Len(s) /\ Len(s) <= MaxInt
    BY <1>1, <1>2, <1>5, <2>1, <2>2, IntAssumption
  <2>4. AsInt(q - pads) = Len(s)
    BY <1>1, <2>3, FitsInt
  <2> QED BY <1>3, <1>4, <1>5, <2>4 DEF e
<1>6. CASE 24 * G > MaxInt
  <2>1. 3 * G \in Nat /\ 8 * (3 * G) = 24 * G
    BY <1>1
  <2>2. q \in Int /\ q < 3 * G /\ q \in 2 - MaxInt..MaxInt
    <3> DEFINE n == 3 * G
    <3>1. n \in Nat /\ 8 * n > MaxInt /\ 8 * n = 24 * G
      BY <1>6, <2>1
    <3> HIDE DEF n
    <3>2. Quotient(AsInt(8 * n), 8) < n /\ Quotient(AsInt(8 * n), 8) \in 2 - MaxInt..MaxInt
      BY <3>1, SmallerQuotient
    <3>3. q < n /\ q \in 2 - MaxInt..MaxInt
      BY <3>1, <3>2
    <3> QED BY <3>3, IntAssumption DEF n
  <2>3. pads \in 0..2 /\ Len(s) = 3 * G - pads
    BY <1>1, <1>2
  <2> HIDE DEF q
  <2>4. q - pads \in -MaxInt..MaxInt /\ q - pads < Len(s)
    BY <1>1, <2>2, <2>3, IntAssumption
  <2>5. AsInt(q - pads) = q - pads
    BY <2>4, IntAssumption DEF AsInt
  <2>6. Len(s) # base64_dec_len(e, before) /\ ~(6 * Len(e) <= MaxInt)
    BY <1>1, <1>3, <1>4, <1>6, <2>4, <2>5, IntAssumption
  <2> QED BY <2>6 DEF e
<1> QED BY <1>1, <1>5, <1>6, IntAssumption

-------------------------------------------------------------------------------
(* Base64: the theorems. *)

Base64Inv ==
  /\ input \in Seq(Byte)
  /\ stage \in {"plain", "encoded", "decoded"}
  /\ stage # "plain" => encoded = base64_encode(input)
  /\ stage = "decoded" => decoded = base64_decode(encoded)

LEMMA Base64Invariant == Base64Spec => []Base64Inv
<1>1. Base64Init => Base64Inv
  BY InputsAssumption DEF Base64Init, Base64Inv, Byte
<1>2. Base64Inv /\ [Encode \/ Decode]_base64Vars => Base64Inv'
  BY DEF Base64Inv, Encode, Decode, base64Vars
<1> QED BY <1>1, <1>2, PTL DEF Base64Spec

\* Whatever bytes are encoded, decoding gives them back.
THEOREM DecodeInvertsEncode == Base64Spec => []RoundTrip
<1>1. Base64Inv => RoundTrip
  BY DecodedIsInput DEF Base64Inv, RoundTrip
<1> QED BY <1>1, Base64Invariant, PTL

\* Whatever bytes are encoded, the text is RFC 4648's.
THEOREM EncodingIsRfc4648 == Base64Spec => []EncodesAsRfc4648
<1>1. Base64Inv => EncodesAsRfc4648
  BY EncodedType, GroupAsRfc4648 DEF Base64Inv, EncodesAsRfc4648
<1> QED BY <1>1, Base64Invariant, PTL

\* The two length functions are right for every input for which their arithmetic
\* fits an int; behind that, and for an empty text behind a '=', base64_dec_len is
\* wrong.
THEOREM LengthsAreForetold == Base64Spec => []LengthsForetold
<1>1. Base64Inv => LengthsForetold
  <2> SUFFICES ASSUME Base64Inv, stage = "decoded"
               PROVE  /\ Len(encoded) <= MaxInt => Len(encoded) = base64_enc_len(Len(input))
                      /\ \A before \in PadsBefore :
                           Len(decoded) = base64_dec_len(encoded, before)
                             <=> 6 * Len(encoded) <= MaxInt /\ (encoded # <<>> \/ before = 0)
    BY DEF LengthsForetold
  <2>1. input \in Seq(Byte) /\ encoded = base64_encode(input) /\ decoded = input
    BY DecodedIsInput DEF Base64Inv
  <2>2. /\ Len(encoded) = 4 * ((Len(input) + 2) \div 3) /\ Len(input) \in Nat
        /\ encoded \in Seq(0..64)
    BY <2>1, EncodedType DEF Groups
  <2>3. Len(encoded) <= MaxInt => Len(encoded) = base64_enc_len(Len(input))
    BY <2>2, LengthOfText
  <2>4. ASSUME NEW before \in PadsBefore, input = <<>>
        PROVE  Len(decoded) = base64_dec_len(encoded, before)
                 <=> 6 * Len(encoded) <= MaxInt /\ (encoded # <<>> \/ before = 0)
    <3>1. Len(input) = 0 /\ Len(decoded) = 0
      BY <2>1, <2>4
    <3>2. Len(encoded) = 0
      BY <2>2, <3>1
    <3>3. encoded = <<>>
      BY <2>2, <3>2
    <3>4. base64_dec_len(encoded, before) = -before /\ before \in 0..MaxInt
      BY <3>3, LengthOfNothing, IntAssumption
    <3> QED BY <3>1, <3>2, <3>3, <3>4, IntAssumption
  <2>5. ASSUME NEW before \in PadsBefore, input # <<>>
        PROVE  Len(decoded) = base64_dec_len(encoded, before)
                 <=> 6 * Len(encoded) <= MaxInt /\ (encoded # <<>> \/ before = 0)
    <3>1. before \in Nat
      BY IntAssumption
    <3>2. Len(input) > 0
      BY <2>1, <2>5
    <3>3. encoded # <<>>
      <4>1. Len(encoded) > 0
        BY <2>2, <3>2
      <4> QED BY <4>1
    <3> QED BY <2>1, <2>5, <3>1, <3>3, LengthOfInput
  <2> QED BY <2>3, <2>4, <2>5
<1> QED BY <1>1, Base64Invariant, PTL

-------------------------------------------------------------------------------
(* Sha1: positions and blocks. *)

\* The padded message, place by place.
Padding == [k \in Nat \ {0} |-> Padded(k)]

Position == BlockLength * Len(hashed) + bufferOffset

ShaTypeOK ==
  /\ message \in Messages /\ byteCount \in Nat
  /\ buffer \in [1..BlockLength -> Byte] /\ bufferOffset \in 0..BlockLength - 1
  /\ hashed \in Seq([1..BlockLength -> Byte])
  /\ done \in {"updating", "zeros", "finished"}

\* What was hashed and what is in the buffer is the padded message so far.
Hashed == \A b \in 1..Len(hashed) : hashed[b] = [i \in 1..BlockLength |-> Padding[InBlock(b, i)]]
Buffered == \A i \in 1..bufferOffset : buffer[i] = Padding[BlockLength * Len(hashed) + i]

ShaInv ==
  /\ ShaTypeOK /\ Hashed
  /\ done = "updating" => Buffered /\ Position = byteCount /\ byteCount <= Len(message)
  /\ done = "zeros" => /\ Buffered /\ byteCount = Len(message)
                       /\ Len(message) < Position /\ Position <= PaddedLength - 8
  /\ done = "finished" => PaddedLength = BlockLength * Len(hashed)

LEMMA BlockPlaces ==
  ASSUME NEW n \in Nat
  PROVE  /\ BlockLength \in Nat /\ BlockLength * n \in Nat
         /\ BlockLength * (n + 1) = BlockLength * n + BlockLength
         /\ \A i \in Nat : InBlock(n + 1, i) = BlockLength * n + i
<1>1. BlockLength \in Nat
  BY BlockAssumption
<1>2. BlockLength * n \in Nat /\ BlockLength * (n + 1) = BlockLength * n + BlockLength
  BY <1>1
<1>3. ASSUME NEW i \in Nat PROVE InBlock(n + 1, i) = BlockLength * n + i
  <2>1. n + 1 - 1 = n
    OBVIOUS
  <2> QED BY <2>1 DEF InBlock
<1> QED BY <1>1, <1>2, <1>3

LEMMA MoreBlocks ==
  ASSUME NEW m \in Nat, NEW n \in Nat
  PROVE  m < n => BlockLength * m + BlockLength <= BlockLength * n
  BY BlockAssumption

\* The zeros fill up the last block: the padded message is a number of blocks.
LEMMA PaddedFills ==
  ASSUME ShaTypeOK
  PROVE  /\ Len(message) \in Nat /\ Zeros \in 0..BlockLength - 1
         /\ PaddedLength = Len(message) + 9 + Zeros /\ PaddedLength \in Nat
         /\ \E q \in Nat : PaddedLength = BlockLength * q
<1> DEFINE n == Len(message)
           x == BlockLength - 9 - n
           d == x \div BlockLength
<1>1. BlockLength \in Nat /\ BlockLength >= 9 /\ n \in Nat /\ x \in Int
  BY SMT, BlockAssumption, MessagesAssumption DEF ShaTypeOK
<1>2. Zeros \in 0..BlockLength - 1 /\ d \in Int /\ x = BlockLength * d + Zeros
  <2>1. Zeros = x % BlockLength
    BY DEF Zeros
  <2> HIDE DEF x
  <2> QED BY <1>1, <2>1
<1> HIDE DEF d
<1>3. Zeros \in Int /\ BlockLength * d \in Int
  BY <1>1, <1>2
<1>4. BlockLength * (1 - d) = BlockLength - BlockLength * d
  BY <1>1, <1>2
<1>5. n + 9 + Zeros = BlockLength * (1 - d)
  BY <1>1, <1>2, <1>3, <1>4
<1>6. 1 - d \in Nat
  <2>1. SUFFICES ASSUME 1 - d <= 0 PROVE FALSE
    BY <1>2
  <2>2. BlockLength * (1 - d) <= 0
    BY <1>1, <1>2, <2>1
  <2> HIDE DEF x, n
  <2> QED BY <1>1, <1>2, <1>5, <2>2
<1>7. PaddedLength = n + 9 + Zeros
  BY DEF PaddedLength
<1>8. \E q \in Nat : PaddedLength = BlockLength * q
  BY <1>5, <1>6, <1>7
<1>9. PaddedLength \in Nat
  <2> HIDE DEF x, n
  <2> QED BY <1>1, <1>2, <1>7
<1> QED BY <1>1, <1>2, <1>7, <1>8, <1>9

\* The padded message: text, mark, zeros, length.
LEMMA PaddingParts ==
  ASSUME ShaTypeOK, NEW k \in Nat \ {0}
  PROVE  /\ k <= Len(message) => Padding[k] = message[k]
         /\ k = Len(message) + 1 => Padding[k] = 128
         /\ k > Len(message) + 1 /\ k <= PaddedLength - 8 => Padding[k] = 0
         /\ k > PaddedLength - 8 => Padding[k] = LengthByte(k + 8 - PaddedLength)
<1>1. /\ Len(message) \in Nat /\ PaddedLength \in Nat
      /\ PaddedLength - 8 >= Len(message) + 1
  BY PaddedFills
<1>2. Padding[k] = Padded(k)
  BY DEF Padding
<1>3. k <= Len(message) => Padded(k) = message[k]
  BY <1>1 DEF Padded
<1>4. k = Len(message) + 1 => Padded(k) = 128
  BY <1>1 DEF Padded
<1>5. k > Len(message) + 1 /\ k <= PaddedLength - 8 => Padded(k) = 0
  BY <1>1 DEF Padded
<1>6. k > PaddedLength - 8 => Padded(k) = LengthByte(k + 8 - PaddedLength)
  BY <1>1 DEF Padded
<1> QED BY <1>2, <1>3, <1>4, <1>5, <1>6

LEMMA PositionType ==
  ASSUME ShaTypeOK
  PROVE  Position \in Nat /\ Len(hashed) \in Nat /\ bufferOffset \in Nat /\ BlockLength \in Nat
<1>1. Len(hashed) \in Nat /\ bufferOffset \in Nat /\ BlockLength \in Nat
  BY BlockAssumption DEF ShaTypeOK
<1>2. BlockLength * Len(hashed) \in Nat
  BY <1>1, BlockPlaces
<1> QED BY <1>1, <1>2 DEF Position

LEMMA PaddingStays ==
  ASSUME UNCHANGED message
  PROVE  Padding' = Padding /\ PaddedLength' = PaddedLength
  BY DEF Padding, Padded, PaddedLength, Zeros, LengthByte

LEMMA OffsetFits ==
  ASSUME ShaTypeOK
  PROVE  bufferOffset + 1 \in 1..BlockLength /\ (bufferOffset + 1) % 256 = bufferOffset + 1
<1>1. bufferOffset \in 0..254 /\ bufferOffset + 1 \in 1..BlockLength
  BY BlockAssumption DEF ShaTypeOK
<1>2. \A x \in 0..254 : (x + 1) % 256 = x + 1
  OBVIOUS
<1> QED BY <1>1, <1>2

\* addUncounted puts a byte at its place; the block is hashed when it is full.
LEMMA AddUncountedTyped ==
  ASSUME ShaTypeOK, NEW byte \in Byte, AddUncounted(byte)
  PROVE  /\ buffer' \in [1..BlockLength -> Byte] /\ bufferOffset' \in 0..BlockLength - 1
         /\ hashed' \in Seq([1..BlockLength -> Byte])
<1> DEFINE filled == [buffer EXCEPT ![bufferOffset + 1] = byte]
<1>1. filled \in [1..BlockLength -> Byte] /\ buffer' = filled
  BY DEF ShaTypeOK, AddUncounted
<1>2. bufferOffset + 1 \in 1..BlockLength /\ (bufferOffset + 1) % 256 = bufferOffset + 1
  BY OffsetFits
<1> HIDE DEF filled
<1>3. CASE bufferOffset + 1 = BlockLength
  <2>1. bufferOffset' = 0 /\ hashed' = Append(hashed, filled)
    BY <1>2, <1>3 DEF AddUncounted, BlockFull, filled
  <2> QED BY <1>1, <2>1, BlockAssumption DEF ShaTypeOK
<1>4. CASE bufferOffset + 1 # BlockLength
  <2>1. bufferOffset' = bufferOffset + 1 /\ hashed' = hashed
    BY <1>2, <1>4 DEF AddUncounted, BlockFull
  <2> QED BY <1>1, <1>2, <1>4, <2>1, BlockAssumption DEF ShaTypeOK
<1> QED BY <1>3, <1>4

LEMMA AddUncountedMoves ==
  ASSUME ShaTypeOK, Hashed, Buffered, NEW byte \in Byte, AddUncounted(byte),
         UNCHANGED message, byte = Padding[Position + 1]
  PROVE  Hashed' /\ Buffered' /\ Position' = Position + 1
<1> DEFINE filled == [buffer EXCEPT ![bufferOffset + 1] = byte]
           n == Len(hashed)
<1>1. filled \in [1..BlockLength -> Byte] /\ buffer' = filled
  BY DEF ShaTypeOK, AddUncounted
<1>2. /\ bufferOffset + 1 \in 1..BlockLength /\ (bufferOffset + 1) % 256 = bufferOffset + 1
      /\ bufferOffset \in Nat
  BY OffsetFits DEF ShaTypeOK
<1>3. /\ n \in Nat /\ BlockLength \in Nat /\ BlockLength * n \in Nat
      /\ BlockLength * (n + 1) = BlockLength * n + BlockLength
  BY BlockPlaces DEF ShaTypeOK
<1>4. Position = BlockLength * n + bufferOffset /\ Padding' = Padding
  BY PaddingStays DEF Position
<1>5. ASSUME NEW i \in 1..bufferOffset + 1
      PROVE  filled[i] = Padding[BlockLength * n + i]
  <2>1. CASE i = bufferOffset + 1
    <3>1. filled[i] = byte
      BY <1>2, <2>1 DEF ShaTypeOK
    <3>2. BlockLength * n + i = Position + 1
      <4> HIDE DEF n
      <4> QED BY <1>2, <1>3, <1>4, <2>1
    <3> QED BY <3>1, <3>2
  <2>2. CASE i # bufferOffset + 1
    <3>1. i \in 1..bufferOffset
      BY <1>2, <2>2
    <3>2. filled[i] = buffer[i]
      BY <1>2, <2>2 DEF ShaTypeOK
    <3> QED BY <3>1, <3>2 DEF Buffered
  <2> QED BY <2>1, <2>2
<1> HIDE DEF filled, n
<1>6. CASE bufferOffset + 1 = BlockLength
  <2>1. bufferOffset' = 0 /\ hashed' = Append(hashed, filled)
    BY <1>2, <1>6 DEF AddUncounted, BlockFull, filled
  <2>2. /\ Len(hashed') = n + 1 /\ hashed'[n + 1] = filled
        /\ \A b \in 1..n : hashed'[b] = hashed[b]
    BY <2>1 DEF ShaTypeOK, n
  <2>3. Position' = Position + 1
    <3>1. Position' = BlockLength * (n + 1) + 0
      BY <2>1, <2>2 DEF Position
    <3> QED BY <1>2, <1>3, <1>4, <1>6, <3>1
  <2>4. filled = [i \in 1..BlockLength |-> Padding[InBlock(n + 1, i)]]
    <3>1. ASSUME NEW i \in 1..BlockLength PROVE filled[i] = Padding[InBlock(n + 1, i)]
      <4>1. InBlock(n + 1, i) = BlockLength * n + i
        BY <1>3, BlockPlaces
      <4>2. i \in 1..bufferOffset + 1
        BY <1>6
      <4> QED BY <1>5, <4>1, <4>2
    <3>2. filled = [i \in 1..BlockLength |-> filled[i]]
      BY <1>1
    <3> QED BY <3>1, <3>2
  <2>5. Hashed'
    <3>1. ASSUME NEW b \in 1..n + 1
          PROVE  hashed'[b] = [i \in 1..BlockLength |-> Padding[InBlock(b, i)]]
      <4>1. CASE b = n + 1
        BY <2>2, <2>4, <4>1
      <4>2. CASE b \in 1..n
        BY <2>2, <4>2 DEF Hashed, n
      <4> QED BY <1>3, <4>1, <4>2
    <3> QED BY <1>4, <2>2, <3>1 DEF Hashed, InBlock
  <2>6. Buffered'
    <3>1. 1..bufferOffset' = {}
      BY <2>1
    <3> QED BY <3>1 DEF Buffered
  <2> QED BY <2>3, <2>5, <2>6
<1>7. CASE bufferOffset + 1 # BlockLength
  <2>1. bufferOffset' = bufferOffset + 1 /\ hashed' = hashed
    BY <1>2, <1>7 DEF AddUncounted, BlockFull
  <2>2. Position' = Position + 1
    <3>1. Position' = BlockLength * n + (bufferOffset + 1)
      BY <2>1 DEF Position, n
    <3> QED BY <1>2, <1>3, <1>4, <3>1
  <2>3. Hashed'
    BY <1>4, <2>1 DEF Hashed, InBlock
  <2>4. Buffered'
    BY <1>1, <1>4, <1>5, <2>1 DEF Buffered, n
  <2> QED BY <2>2, <2>3, <2>4
<1> QED BY <1>6, <1>7

-------------------------------------------------------------------------------
(* Sha1: the end of the padding. *)

\* The zeros stop where the length begins, and nowhere before.
LEMMA ZerosEnd ==
  ASSUME ShaTypeOK, Len(message) < Position, Position <= PaddedLength - 8
  PROVE  /\ bufferOffset # BlockLength - 8 => Position < PaddedLength - 8
         /\ bufferOffset = BlockLength - 8 =>
              /\ PaddedLength = BlockLength * Len(hashed) + BlockLength
              /\ Position = PaddedLength - 8
<1> DEFINE n == Len(hashed)
<1>1. /\ n \in Nat /\ bufferOffset \in 0..BlockLength - 1 /\ BlockLength \in Nat
      /\ BlockLength >= 9 /\ BlockLength * n \in Nat
      /\ Position = BlockLength * n + bufferOffset
  BY BlockAssumption, BlockPlaces DEF ShaTypeOK, Position
<1>2. PICK q \in Nat : PaddedLength = BlockLength * q
  BY PaddedFills
<1>3. PaddedLength \in Nat /\ PaddedLength - 8 - Position < BlockLength
  <2>1. /\ Len(message) \in Nat /\ Zeros \in 0..BlockLength - 1
        /\ PaddedLength = Len(message) + 9 + Zeros
    BY PaddedFills
  <2>2. Position \in Nat
    BY PositionType
  <2> QED BY <1>1, <2>1, <2>2
<1> HIDE DEF n
<1>4. n < q
  <2>1. SUFFICES ASSUME q <= n PROVE FALSE
    BY <1>1
  <2>2. BlockLength * q <= BlockLength * n
    BY <1>1, <2>1
  <2> QED BY <1>1, <1>2, <1>3, <2>2
<1>5. CASE q = n + 1
  <2>1. PaddedLength = BlockLength * n + BlockLength
    BY <1>1, <1>2, <1>5, BlockPlaces
  <2> QED BY <1>1, <1>3, <2>1 DEF n
<1>6. CASE n + 1 < q
  <2>1. BlockLength * (n + 1) + BlockLength <= BlockLength * q
    BY <1>1, <1>6, MoreBlocks
  <2>2. BlockLength * (n + 1) = BlockLength * n + BlockLength
    BY <1>1, BlockPlaces
  <2>3. BlockLength * n + BlockLength + BlockLength <= PaddedLength
    BY <1>2, <2>1, <2>2
  <2>4. bufferOffset > BlockLength - 8 /\ Position < PaddedLength - 8
    BY <1>1, <1>3, <2>3
  <2> QED BY <1>1, <2>4
<1> QED BY <1>1, <1>4, <1>5, <1>6

LEMMA Joined ==
  ASSUME NEW x \in Seq(Byte), NEW y \in Seq(Byte), NEW n \in Nat, n <= Len(x)
  PROVE  /\ Len(SubSeq(x, 1, n) \o y) = n + Len(y)
         /\ DOMAIN (SubSeq(x, 1, n) \o y) = 1..(n + Len(y))
         /\ \A i \in 1..n : (SubSeq(x, 1, n) \o y)[i] = x[i]
         /\ \A i \in 1..Len(y) : (SubSeq(x, 1, n) \o y)[n + i] = y[i]
<1>1. /\ SubSeq(x, 1, n) \in Seq(Byte) /\ Len(SubSeq(x, 1, n)) = n
      /\ \A i \in 1..n : SubSeq(x, 1, n)[i] = x[i]
  OBVIOUS
<1> DEFINE u == SubSeq(x, 1, n)
<1>2. u \in Seq(Byte) /\ Len(u) = n
  BY <1>1
<1> HIDE DEF u
<1>3. /\ Len(u \o y) = n + Len(y) /\ DOMAIN (u \o y) = 1..(n + Len(y))
      /\ \A i \in 1..n : (u \o y)[i] = u[i]
      /\ \A i \in 1..Len(y) : (u \o y)[n + i] = y[i]
  BY <1>2
<1> QED BY <1>1, <1>3 DEF u

\* A length in bits, shifted by bytes, is one in bytes, shifted by three less.
LEMMA BitsOfBytes ==
  ASSUME NEW x \in Nat
  PROVE  /\ (8 * x) \div 16777216 = x \div 2097152
         /\ (8 * x) \div 65536 = x \div 8192
         /\ (8 * x) \div 256 = x \div 32
         /\ (8 * x) \div 1 = x * 8
         /\ x \div 2097152 \in Nat /\ x \div 8192 \in Nat /\ x \div 32 \in Nat /\ x * 8 \in Nat
<1>1. (8 * x) \div 16777216 = x \div 2097152
  BY SMT
<1>2. (8 * x) \div 65536 = x \div 8192
  BY SMT
<1>3. (8 * x) \div 256 = x \div 32
  BY SMT
<1>4. (8 * x) \div 1 = x * 8
  BY SMT
<1>5. x \div 2097152 \in Nat /\ x \div 8192 \in Nat
  BY SMT
<1>6. x \div 32 \in Nat /\ x * 8 \in Nat
  BY SMT
<1> QED BY SMT, <1>1, <1>2, <1>3, <1>4, <1>5, <1>6

\* The eight bytes of the length.
LEMMA LengthWritten ==
  ASSUME ShaTypeOK, byteCount = Len(message), NEW i \in 1..8
  PROVE  LengthBytes[i] = LengthByte(i) /\ LengthBytes[i] \in Byte
<1>1. byteCount \in Nat /\ byteCount < 536870912
  BY SMT, MessagesAssumption DEF ShaTypeOK
<1>2. byteCount \div 536870912 = 0
  BY SMT, <1>1
<1>3. \A x \in Nat : x % 256 \in Byte
  BY SMT DEF Byte
<1>4. CASE i \in 1..3
  BY SMT, <1>4 DEF LengthBytes, LengthByte, Byte
<1>5. CASE i = 4
  BY SMT, <1>2, <1>5 DEF LengthBytes, LengthByte, Byte
<1>6. CASE i = 5
  <2>1. /\ LengthBytes[5] = (byteCount \div 2097152) % 256
        /\ LengthByte(5) = ((8 * byteCount) \div 16777216) % 256
    BY SMT DEF LengthBytes, LengthByte
  <2> QED BY SMT, <1>1, <1>3, <1>6, <2>1, BitsOfBytes
<1>7. CASE i = 6
  <2>1. /\ LengthBytes[6] = (byteCount \div 8192) % 256
        /\ LengthByte(6) = ((8 * byteCount) \div 65536) % 256
    BY SMT DEF LengthBytes, LengthByte
  <2> QED BY SMT, <1>1, <1>3, <1>7, <2>1, BitsOfBytes
<1>8. CASE i = 7
  <2>1. /\ LengthBytes[7] = (byteCount \div 32) % 256
        /\ LengthByte(7) = ((8 * byteCount) \div 256) % 256
    BY SMT DEF LengthBytes, LengthByte
  <2> QED BY SMT, <1>1, <1>3, <1>8, <2>1, BitsOfBytes
<1>9. CASE i = 8
  <2>1. /\ LengthBytes[8] = (byteCount * 8) % 256
        /\ LengthByte(8) = ((8 * byteCount) \div 1) % 256
    BY SMT DEF LengthBytes, LengthByte
  <2>2. (8 * byteCount) \div 1 = byteCount * 8 /\ byteCount * 8 \in Nat
    BY <1>1, BitsOfBytes
  <2> DEFINE bits == byteCount * 8
  <2>3. bits % 256 \in Byte
    BY <1>3, <2>2
  <2>4. LengthBytes[8] = bits % 256 /\ LengthByte(8) = bits % 256
    BY <2>1, <2>2
  <2> HIDE DEF bits
  <2> QED BY <1>9, <2>3, <2>4
<1> QED BY <1>4, <1>5, <1>6, <1>7, <1>8, <1>9

LEMMA LengthTyped ==
  ASSUME ShaTypeOK, byteCount = Len(message)
  PROVE  LengthBytes \in Seq(Byte) /\ Len(LengthBytes) = 8
<1>1. Len(LengthBytes) = 8 /\ LengthBytes = [i \in 1..8 |-> LengthBytes[i]]
  BY SMT DEF LengthBytes
<1>2. \A i \in 1..8 : LengthBytes[i] \in Byte
  BY LengthWritten
<1>3. LengthBytes \in [1..8 -> Byte]
  BY <1>1, <1>2
<1> QED BY <1>1, <1>3

-------------------------------------------------------------------------------
(* Sha1: the invariant. *)

LEMMA ShaInvInit == ShaInit => ShaInv
<1> SUFFICES ASSUME ShaInit PROVE ShaInv
  OBVIOUS
<1>1. ShaTypeOK
  <2>1. buffer \in [1..BlockLength -> Byte] /\ 0 \in 0..BlockLength - 1
    BY BlockAssumption DEF ShaInit, Byte
  <2> QED BY <2>1 DEF ShaInit, ShaTypeOK
<1>2. Hashed /\ Buffered
  BY DEF ShaInit, Hashed, Buffered
<1>3. Position = byteCount /\ byteCount <= Len(message)
  <2>1. BlockLength * 0 + 0 = 0
    BY BlockAssumption
  <2> QED BY <1>1, <2>1, PaddedFills DEF ShaInit, Position
<1> QED BY <1>1, <1>2, <1>3 DEF ShaInit, ShaInv

LEMMA WriteByteKeeps == ShaInv /\ WriteByte => ShaInv'
<1> SUFFICES ASSUME ShaInv, WriteByte PROVE ShaInv'
  OBVIOUS
<1>1. /\ ShaTypeOK /\ Hashed /\ Buffered /\ Position = byteCount
      /\ byteCount \in Nat /\ Len(message) \in Nat /\ byteCount < Len(message)
      /\ byteCount' = byteCount + 1 /\ message' = message /\ done = "updating" /\ done' = done
  BY PaddedFills DEF ShaInv, ShaTypeOK, WriteByte
<1> DEFINE byte == message[byteCount + 1]
<1>2. byte \in Byte /\ AddUncounted(byte)
  <2>1. message \in Seq(Byte)
    BY SMT, <1>1, MessagesAssumption DEF ShaTypeOK, Byte
  <2> QED BY <1>1, <2>1 DEF WriteByte
<1>3. byte = Padding[Position + 1]
  <2>1. Position + 1 \in Nat \ {0} /\ Position + 1 <= Len(message)
    BY <1>1
  <2> QED BY <1>1, <2>1, PaddingParts
<1> HIDE DEF byte
<1>4. Hashed' /\ Buffered' /\ Position' = Position + 1
  BY <1>1, <1>2, <1>3, AddUncountedMoves
<1>5. ShaTypeOK'
  BY <1>1, <1>2, AddUncountedTyped DEF ShaTypeOK
<1> QED BY <1>1, <1>4, <1>5 DEF ShaInv

LEMMA PadMarkKeeps == ShaInv /\ PadMark => ShaInv'
<1> SUFFICES ASSUME ShaInv, PadMark PROVE ShaInv'
  OBVIOUS
<1>1. /\ ShaTypeOK /\ Hashed /\ Buffered /\ Position = byteCount /\ byteCount = Len(message)
      /\ byteCount' = byteCount /\ message' = message /\ done' = "zeros" /\ AddUncounted(128)
      /\ 128 \in Byte
  BY DEF ShaInv, PadMark, Byte
<1>2. /\ Len(message) \in Nat /\ PaddedLength \in Nat /\ Len(message) + 1 <= PaddedLength - 8
  BY <1>1, PaddedFills
<1>3. 128 = Padding[Position + 1]
  <2>1. Position + 1 \in Nat \ {0} /\ Position + 1 = Len(message) + 1
    BY <1>1, <1>2
  <2> QED BY <1>1, <2>1, PaddingParts
<1>4. Hashed' /\ Buffered' /\ Position' = Position + 1
  BY <1>1, <1>3, AddUncountedMoves
<1>5. ShaTypeOK'
  BY <1>1, AddUncountedTyped DEF ShaTypeOK
<1>6. PaddedLength' = PaddedLength
  BY <1>1, PaddingStays
<1>7. Len(message') < Position' /\ Position' <= PaddedLength' - 8
  BY <1>1, <1>2, <1>4, <1>6
<1> QED BY <1>1, <1>4, <1>5, <1>7 DEF ShaInv

LEMMA PadZeroKeeps == ShaInv /\ PadZero => ShaInv'
<1> SUFFICES ASSUME ShaInv, PadZero PROVE ShaInv'
  OBVIOUS
<1>1. /\ ShaTypeOK /\ Hashed /\ Buffered /\ byteCount = Len(message)
      /\ Len(message) < Position /\ Position <= PaddedLength - 8
      /\ byteCount' = byteCount /\ message' = message /\ done = "zeros" /\ done' = "zeros"
      /\ AddUncounted(0) /\ 0 \in Byte /\ bufferOffset # BlockLength - 8
  BY DEF ShaInv, PadZero, PadsOn, LengthOffset, Byte
<1>2. Len(message) \in Nat /\ PaddedLength \in Nat /\ Position \in Nat
  <2>1. Position \in Nat
    BY <1>1, PositionType
  <2> QED BY <1>1, <2>1, PaddedFills
<1>3. Position < PaddedLength - 8
  BY <1>1, ZerosEnd
<1>4. 0 = Padding[Position + 1]
  <2>1. /\ Position + 1 \in Nat \ {0} /\ Position + 1 > Len(message) + 1
        /\ Position + 1 <= PaddedLength - 8
    BY <1>1, <1>2, <1>3
  <2> QED BY <1>1, <2>1, PaddingParts
<1>5. Hashed' /\ Buffered' /\ Position' = Position + 1
  BY <1>1, <1>4, AddUncountedMoves
<1>6. ShaTypeOK'
  BY <1>1, AddUncountedTyped DEF ShaTypeOK
<1>7. PaddedLength' = PaddedLength
  BY <1>1, PaddingStays
<1>8. Len(message') < Position' /\ Position' <= PaddedLength' - 8
  BY <1>1, <1>2, <1>3, <1>5, <1>7
<1> QED BY <1>1, <1>5, <1>6, <1>8 DEF ShaInv

LEMMA PadLengthKeeps == ShaInv /\ PadLength => ShaInv'
<1> SUFFICES ASSUME ShaInv, PadLength PROVE ShaInv'
  OBVIOUS
<1> DEFINE n == Len(hashed)
           block == SubSeq(buffer, 1, bufferOffset) \o LengthBytes
<1>1. /\ ShaTypeOK /\ Hashed /\ Buffered /\ byteCount = Len(message)
      /\ Len(message) < Position /\ Position <= PaddedLength - 8
      /\ message' = message /\ byteCount' = byteCount /\ buffer' = buffer
      /\ bufferOffset = BlockLength - 8 /\ bufferOffset' = 0
      /\ hashed' = Append(hashed, block) /\ done' = "finished"
  BY DEF ShaInv, PadLength, PadsOn, LengthOffset
<1>2. /\ PaddedLength = BlockLength * n + BlockLength /\ PaddedLength \in Nat
      /\ n \in Nat /\ BlockLength \in Nat /\ BlockLength >= 9 /\ BlockLength * n \in Nat
  <2>1. n \in Nat /\ BlockLength \in Nat /\ BlockLength >= 9
    BY <1>1, BlockAssumption DEF ShaTypeOK
  <2>2. BlockLength * n \in Nat
    BY <2>1, BlockPlaces
  <2> QED BY <1>1, <2>1, <2>2, ZerosEnd, PaddedFills
<1>3. /\ Len(block) = BlockLength
      /\ \A i \in 1..bufferOffset : block[i] = buffer[i]
      /\ \A i \in 1..8 : block[bufferOffset + i] = LengthBytes[i]
      /\ DOMAIN block = 1..BlockLength
  <2>1. buffer \in Seq(Byte) /\ Len(buffer) = BlockLength
    BY <1>1, <1>2 DEF ShaTypeOK
  <2>2. bufferOffset \in Nat /\ bufferOffset <= BlockLength /\ bufferOffset + 8 = BlockLength
    BY <1>1, <1>2
  <2>3. LengthBytes \in Seq(Byte) /\ Len(LengthBytes) = 8
    BY <1>1, LengthTyped
  <2>4. /\ Len(block) = bufferOffset + 8 /\ DOMAIN block = 1..(bufferOffset + 8)
        /\ \A i \in 1..bufferOffset : block[i] = buffer[i]
        /\ \A i \in 1..8 : block[bufferOffset + i] = LengthBytes[i]
    <3>1. bufferOffset <= Len(buffer)
      BY <2>1, <2>2
    <3>2. /\ Len(block) = bufferOffset + Len(LengthBytes)
          /\ DOMAIN block = 1..(bufferOffset + Len(LengthBytes))
          /\ \A i \in 1..bufferOffset : block[i] = buffer[i]
          /\ \A i \in 1..Len(LengthBytes) : block[bufferOffset + i] = LengthBytes[i]
      BY <2>1, <2>2, <2>3, <3>1, Joined
    <3> HIDE DEF block
    <3> QED BY <2>3, <3>2
  <2> HIDE DEF block
  <2> QED BY <2>2, <2>4
<1>0. block = [i \in 1..BlockLength |-> block[i]]
  <2>1. block = [i \in DOMAIN block |-> block[i]]
    <3>1. block \in Seq(Byte)
      <4>1. SubSeq(buffer, 1, bufferOffset) \in Seq(Byte) /\ LengthBytes \in Seq(Byte)
        BY <1>1, <1>2, LengthTyped DEF ShaTypeOK
      <4> QED BY <4>1
    <3> HIDE DEF block
    <3> QED BY <3>1
  <2> HIDE DEF block
  <2> QED BY <1>3, <2>1
<1> HIDE DEF block
<1>4. ASSUME NEW i \in 1..BlockLength
      PROVE  block[i] = Padding[BlockLength * n + i] /\ block[i] \in Byte
  <2>1. CASE i \in 1..bufferOffset
    <3>1. block[i] = buffer[i]
      BY <1>3, <2>1
    <3> QED BY <1>1, <2>1, <3>1 DEF Buffered, ShaTypeOK
  <2>2. CASE i > bufferOffset
    <3> DEFINE j == i - bufferOffset
               k == BlockLength * n + i
    <3>1. j \in 1..8 /\ i = bufferOffset + j
      BY <1>1, <1>2, <2>2
    <3> HIDE DEF n
    <3>2. k \in Nat \ {0} /\ k > PaddedLength - 8 /\ k + 8 - PaddedLength = j
      <4> DEFINE p == BlockLength * n
      <4>1. p \in Nat /\ PaddedLength = p + BlockLength /\ k = p + i
        BY <1>2
      <4>2. bufferOffset = BlockLength - 8
        BY <1>1
      <4> HIDE DEF p, k
      <4> QED BY <1>2, <2>2, <3>1, <4>1, <4>2
    <3> HIDE DEF j, k
    <3>3. Padding[k] = LengthByte(j)
      BY <1>1, <3>2, PaddingParts
    <3>4. block[i] = LengthBytes[j]
      BY <1>3, <3>1
    <3>5. LengthBytes[j] = LengthByte(j) /\ LengthBytes[j] \in Byte
      BY <1>1, <3>1, LengthWritten
    <3> QED BY <3>3, <3>4, <3>5 DEF k
  <2>3. i \in 1..bufferOffset \/ i > bufferOffset
    BY <1>1, <1>2
  <2> QED BY <2>1, <2>2, <2>3
<1>5. block \in [1..BlockLength -> Byte]
  BY <1>0, <1>4
<1>6. /\ hashed' \in Seq([1..BlockLength -> Byte]) /\ Len(hashed') = n + 1
      /\ hashed'[n + 1] = block /\ \A b \in 1..n : hashed'[b] = hashed[b]
  BY <1>1, <1>5 DEF ShaTypeOK
<1>7. ShaTypeOK'
  <2>1. 0 \in 0..BlockLength - 1
    BY <1>2
  <2> QED BY <1>1, <1>6, <2>1 DEF ShaTypeOK
<1> HIDE DEF n
<1>8. Padding' = Padding /\ PaddedLength' = PaddedLength
  BY <1>1, PaddingStays
<1>9. Hashed'
  <2>1. ASSUME NEW b \in 1..n + 1
        PROVE  hashed'[b] = [i \in 1..BlockLength |-> Padding[InBlock(b, i)]]
    <3>1. CASE b = n + 1
      <4>1. \A i \in 1..BlockLength : InBlock(n + 1, i) = BlockLength * n + i
        BY <1>2, BlockPlaces
      <4>2. block = [i \in 1..BlockLength |-> Padding[InBlock(n + 1, i)]]
        BY <1>0, <1>4, <4>1
      <4> QED BY <1>6, <3>1, <4>2
    <3>2. CASE b \in 1..n
      BY <1>1, <1>6, <3>2 DEF Hashed, n
    <3> QED BY <1>2, <3>1, <3>2
  <2> QED BY <1>6, <1>8, <2>1 DEF Hashed, InBlock
<1>10. PaddedLength' = BlockLength * Len(hashed')
  <2>1. BlockLength * (n + 1) = BlockLength * n + BlockLength
    BY <1>2, BlockPlaces
  <2> QED BY <1>2, <1>6, <1>8, <2>1
<1> QED BY <1>1, <1>7, <1>9, <1>10 DEF ShaInv

LEMMA ShaInvariant == ShaSpec => []ShaInv
<1>1. ShaInv /\ [ShaNext]_shaVars => ShaInv'
  <2>1. ShaInv /\ UNCHANGED shaVars => ShaInv'
    <3> SUFFICES ASSUME ShaInv, UNCHANGED shaVars PROVE ShaInv'
      OBVIOUS
    <3>1. Padding' = Padding /\ PaddedLength' = PaddedLength
      BY PaddingStays DEF shaVars
    <3> QED BY <3>1 DEF ShaInv, ShaTypeOK, Hashed, Buffered, Position, InBlock, shaVars
  <2> QED BY <2>1, WriteByteKeeps, PadMarkKeeps, PadZeroKeeps, PadLengthKeeps DEF ShaNext
<1> QED BY <1>1, ShaInvInit, PTL DEF ShaSpec

-------------------------------------------------------------------------------
(* Sha1: the theorems. *)

\* Wherever a message is cut by the blocks, each of its bytes is hashed once, in
\* order, or waits in the buffer.
THEOREM MessageInBlocks == ShaSpec => []BlocksHoldMessage
<1>1. ASSUME ShaInv, done = "updating" PROVE BlocksHoldMessage
  <2>1. /\ ShaTypeOK /\ Hashed /\ Buffered /\ Position = byteCount /\ byteCount <= Len(message)
        /\ Len(hashed) \in Nat /\ bufferOffset \in Nat /\ BlockLength \in Nat /\ Position \in Nat
        /\ Len(message) \in Nat /\ BlockLength >= 9
        /\ Position = BlockLength * Len(hashed) + bufferOffset
    BY <1>1, PositionType, PaddedFills, BlockAssumption DEF ShaInv, Position
  <2> DEFINE n == Len(hashed)
  <2>2. \A i \in Nat : InBlock(n + 1, i) = BlockLength * n + i
    BY <2>1, BlockPlaces
  <2>3. ASSUME NEW b \in 1..n, NEW i \in 1..BlockLength
        PROVE  Padding[InBlock(b, i)] = message[InBlock(b, i)]
    <3> DEFINE m == b - 1
    <3>1. m \in Nat /\ b = m + 1 /\ m < n
      BY <2>1
    <3> HIDE DEF n, m
    <3>2. BlockLength * m + BlockLength <= BlockLength * n
      BY <2>1, <3>1, MoreBlocks DEF n
    <3>3. InBlock(b, i) = BlockLength * m + i /\ BlockLength * m \in Nat
      BY <3>1, BlockPlaces
    <3>4. BlockLength * n \in Nat
      BY <2>1, BlockPlaces DEF n
    <3>5. InBlock(b, i) \in Nat \ {0} /\ InBlock(b, i) <= Len(message)
      BY <2>1, <3>2, <3>3, <3>4 DEF n
    <3> QED BY <2>1, <3>5, PaddingParts
  <2>4. ASSUME NEW i \in 1..bufferOffset PROVE buffer[i] = message[InBlock(n + 1, i)]
    <3>1. BlockLength * n \in Nat /\ i \in Nat
      BY <2>1, BlockPlaces
    <3>2. BlockLength * n + i \in Nat \ {0} /\ BlockLength * n + i <= Len(message)
      <4> HIDE DEF n
      <4> QED BY <2>1, <3>1 DEF n
    <3>3. Padding[BlockLength * n + i] = message[BlockLength * n + i]
      BY <2>1, <3>2, PaddingParts
    <3> QED BY <2>1, <2>2, <3>1, <3>3 DEF Buffered
  <2>5. ASSUME NEW b \in DOMAIN hashed
        PROVE  hashed[b] = [i \in 1..BlockLength |-> message[InBlock(b, i)]]
    <3>1. b \in 1..n
      BY <2>1 DEF ShaTypeOK
    <3> QED BY <2>1, <2>3, <3>1 DEF Hashed
  <2> QED BY <2>1, <2>4, <2>5 DEF BlocksHoldMessage
<1>2. ShaInv => BlocksHoldMessage
  BY <1>1 DEF BlocksHoldMessage
<1> QED BY <1>2, ShaInvariant, PTL

\* For every message the blocks are those of FIPS 180-2's padding, also where the
\* length does not fit behind the message's last byte.
THEOREM PaddingIsFips180 == ShaSpec => []PaddedAsFips180
<1>1. ASSUME ShaInv, done = "finished" PROVE PaddedAsFips180
  <2>1. ShaTypeOK /\ Hashed /\ PaddedLength = BlockLength * Len(hashed)
    BY <1>1 DEF ShaInv
  <2>2. ASSUME NEW b \in DOMAIN hashed
        PROVE  hashed[b] = [i \in 1..BlockLength |-> Padded(InBlock(b, i))]
    <3>1. b \in 1..Len(hashed) /\ Len(hashed) \in Nat
      BY <2>1 DEF ShaTypeOK
    <3>2. ASSUME NEW i \in 1..BlockLength
          PROVE  Padding[InBlock(b, i)] = Padded(InBlock(b, i))
      <4> DEFINE m == b - 1
      <4>1. m \in Nat /\ b = m + 1
        BY <3>1
      <4> HIDE DEF m
      <4>2. InBlock(b, i) = BlockLength * m + i /\ BlockLength * m \in Nat
        BY <4>1, BlockPlaces, BlockAssumption
      <4>3. InBlock(b, i) \in Nat \ {0}
        BY <4>2
      <4> QED BY <4>3 DEF Padding
    <3> QED BY <2>1, <3>1, <3>2 DEF Hashed
  <2> QED BY <2>1, <2>2 DEF PaddedAsFips180
<1>2. ShaInv => PaddedAsFips180
  BY <1>1 DEF PaddedAsFips180
<1> QED BY <1>2, ShaInvariant, PTL

-------------------------------------------------------------------------------
(* Sha1Block: the bits of a half, and what is done to them. *)

Halves == 0..Half - 1
Word == Halves \X Halves

LEMMA HalfBound ==
  ASSUME NEW n \in Nat, n <= 65535
  PROVE  n \in Halves
<1>1. Half \in Nat /\ n <= Half - 1
  BY SMT DEF Half
<1> QED BY <1>1 DEF Halves

\* The powers of two in a half.
LEMMA Powers ==
  /\ 2^0 = 1 /\ 2^1 = 2 /\ 2^2 = 4 /\ 2^3 = 8 /\ 2^4 = 16 /\ 2^5 = 32 /\ 2^6 = 64 /\ 2^7 = 128
  /\ 2^8 = 256 /\ 2^9 = 512 /\ 2^10 = 1024 /\ 2^11 = 2048 /\ 2^12 = 4096 /\ 2^13 = 8192
  /\ 2^14 = 16384 /\ 2^15 = 32768
  BY SMT

LEMMA Doubles == \A n \in 0..14 : 2^n \in Nat \ {0} /\ 2^(n + 1) = 2 * 2^n
<1> SUFFICES ASSUME NEW n \in 0..14 PROVE 2^n \in Nat \ {0} /\ 2^(n + 1) = 2 * 2^n
  OBVIOUS
<1>1. CASE n = 0  BY <1>1, Powers
<1>2. CASE n = 1  BY <1>2, Powers
<1>3. CASE n = 2  BY <1>3, Powers
<1>4. CASE n = 3  BY <1>4, Powers
<1>5. CASE n = 4  BY <1>5, Powers
<1>6. CASE n = 5  BY <1>6, Powers
<1>7. CASE n = 6  BY <1>7, Powers
<1>8. CASE n = 7  BY <1>8, Powers
<1>9. CASE n = 8  BY <1>9, Powers
<1>10. CASE n = 9  BY <1>10, Powers
<1>11. CASE n = 10  BY <1>11, Powers
<1>12. CASE n = 11  BY <1>12, Powers
<1>13. CASE n = 12  BY <1>13, Powers
<1>14. CASE n = 13  BY <1>14, Powers
<1>15. CASE n = 14  BY <1>15, Powers
<1> QED BY <1>1, <1>2, <1>3, <1>4, <1>5, <1>6, <1>7, <1>8, <1>9, <1>10, <1>11, <1>12, <1>13, <1>14, <1>15

LEMMA HalfQuotient ==
  ASSUME NEW h \in Nat, NEW p \in Nat \ {0}, NEW bit \in 0..1, NEW s \in Nat,
         h \div p = bit + 2 * s
  PROVE  h \div (2 * p) = s
  OBVIOUS

LEMMA NextPlace ==
  ASSUME NEW h \in Nat, NEW n \in 0..14, NEW bit \in 0..1, NEW s \in Nat,
         h \div 2^n = bit + 2 * s
  PROVE  Bit(h, n) = bit /\ h \div 2^(n + 1) = s
<1>1. (bit + 2 * s) % 2 = bit
  OBVIOUS
<1>2. 2^n \in Nat \ {0} /\ 2^(n + 1) = 2 * 2^n
  BY Doubles
<1> DEFINE p == 2^n
<1>3. p \in Nat \ {0} /\ h \div p = bit + 2 * s
  BY <1>2
<1>4. h \div (2 * p) = s
  <2> HIDE DEF p
  <2> QED BY <1>3, HalfQuotient
<1> QED BY <1>1, <1>2, <1>4 DEF Bit


\* The bits a half is made from are its bits.
LEMMA BitsOf ==
  ASSUME NEW b \in [0..15 -> 0..1]
  PROVE  FromBits(b) \in Halves /\ \A n \in 0..15 : Bit(FromBits(b), n) = b[n]
<1> DEFINE s15 == b[15]
           s14 == b[14] + 2 * s15
           s13 == b[13] + 2 * s14
           s12 == b[12] + 2 * s13
           s11 == b[11] + 2 * s12
           s10 == b[10] + 2 * s11
           s9 == b[9] + 2 * s10
           s8 == b[8] + 2 * s9
           s7 == b[7] + 2 * s8
           s6 == b[6] + 2 * s7
           s5 == b[5] + 2 * s6
           s4 == b[4] + 2 * s5
           s3 == b[3] + 2 * s4
           s2 == b[2] + 2 * s3
           s1 == b[1] + 2 * s2
           s0 == b[0] + 2 * s1
<1>0. FromBits(b) = s0
  BY DEF FromBits
<1>b. \A n \in 0..15 : b[n] \in 0..1
  OBVIOUS
<1>t15. s15 \in Nat /\ s15 <= 1
  BY <1>b
<1>e15. s15 = b[15]
  OBVIOUS
<1> HIDE DEF s15
<1>e14. s14 = b[14] + 2 * s15
  OBVIOUS
<1>t14. s14 \in Nat /\ s14 <= 3
  <2>1. b[14] \in Nat /\ b[14] <= 1
    BY <1>b
  <2> QED BY <1>t15, <2>1
<1> HIDE DEF s14
<1>e13. s13 = b[13] + 2 * s14
  OBVIOUS
<1>t13. s13 \in Nat /\ s13 <= 7
  <2>1. b[13] \in Nat /\ b[13] <= 1
    BY <1>b
  <2> QED BY <1>t14, <2>1
<1> HIDE DEF s13
<1>e12. s12 = b[12] + 2 * s13
  OBVIOUS
<1>t12. s12 \in Nat /\ s12 <= 15
  <2>1. b[12] \in Nat /\ b[12] <= 1
    BY <1>b
  <2> QED BY <1>t13, <2>1
<1> HIDE DEF s12
<1>e11. s11 = b[11] + 2 * s12
  OBVIOUS
<1>t11. s11 \in Nat /\ s11 <= 31
  <2>1. b[11] \in Nat /\ b[11] <= 1
    BY <1>b
  <2> QED BY <1>t12, <2>1
<1> HIDE DEF s11
<1>e10. s10 = b[10] + 2 * s11
  OBVIOUS
<1>t10. s10 \in Nat /\ s10 <= 63
  <2>1. b[10] \in Nat /\ b[10] <= 1
    BY <1>b
  <2> QED BY <1>t11, <2>1
<1> HIDE DEF s10
<1>e9. s9 = b[9] + 2 * s10
  OBVIOUS
<1>t9. s9 \in Nat /\ s9 <= 127
  <2>1. b[9] \in Nat /\ b[9] <= 1
    BY <1>b
  <2> QED BY <1>t10, <2>1
<1> HIDE DEF s9
<1>e8. s8 = b[8] + 2 * s9
  OBVIOUS
<1>t8. s8 \in Nat /\ s8 <= 255
  <2>1. b[8] \in Nat /\ b[8] <= 1
    BY <1>b
  <2> QED BY <1>t9, <2>1
<1> HIDE DEF s8
<1>e7. s7 = b[7] + 2 * s8
  OBVIOUS
<1>t7. s7 \in Nat /\ s7 <= 511
  <2>1. b[7] \in Nat /\ b[7] <= 1
    BY <1>b
  <2> QED BY <1>t8, <2>1
<1> HIDE DEF s7
<1>e6. s6 = b[6] + 2 * s7
  OBVIOUS
<1>t6. s6 \in Nat /\ s6 <= 1023
  <2>1. b[6] \in Nat /\ b[6] <= 1
    BY <1>b
  <2> QED BY <1>t7, <2>1
<1> HIDE DEF s6
<1>e5. s5 = b[5] + 2 * s6
  OBVIOUS
<1>t5. s5 \in Nat /\ s5 <= 2047
  <2>1. b[5] \in Nat /\ b[5] <= 1
    BY <1>b
  <2> QED BY <1>t6, <2>1
<1> HIDE DEF s5
<1>e4. s4 = b[4] + 2 * s5
  OBVIOUS
<1>t4. s4 \in Nat /\ s4 <= 4095
  <2>1. b[4] \in Nat /\ b[4] <= 1
    BY <1>b
  <2> QED BY <1>t5, <2>1
<1> HIDE DEF s4
<1>e3. s3 = b[3] + 2 * s4
  OBVIOUS
<1>t3. s3 \in Nat /\ s3 <= 8191
  <2>1. b[3] \in Nat /\ b[3] <= 1
    BY <1>b
  <2> QED BY <1>t4, <2>1
<1> HIDE DEF s3
<1>e2. s2 = b[2] + 2 * s3
  OBVIOUS
<1>t2. s2 \in Nat /\ s2 <= 16383
  <2>1. b[2] \in Nat /\ b[2] <= 1
    BY <1>b
  <2> QED BY <1>t3, <2>1
<1> HIDE DEF s2
<1>e1. s1 = b[1] + 2 * s2
  OBVIOUS
<1>t1. s1 \in Nat /\ s1 <= 32767
  <2>1. b[1] \in Nat /\ b[1] <= 1
    BY <1>b
  <2> QED BY <1>t2, <2>1
<1> HIDE DEF s1
<1>e0. s0 = b[0] + 2 * s1
  OBVIOUS
<1>t0. s0 \in Nat /\ s0 <= 65535
  <2>1. b[0] \in Nat /\ b[0] <= 1
    BY <1>b
  <2> QED BY <1>t1, <2>1
<1> DEFINE h == FromBits(b)
<1> HIDE DEF s0
<1>h. h = s0 /\ h \in Halves /\ h \in Nat
  <2>1. h = s0 /\ h \in Nat /\ h <= 65535
    BY <1>0, <1>t0, SMT
  <2> HIDE DEF h
  <2> QED BY <2>1, HalfBound
<1> HIDE DEF h
<1>q0. h \div 2^0 = s0 /\ h \in Nat
  <2>1. h \div 1 = h
    BY <1>h
  <2>2. 2^0 = 1
    BY SMT
  <2> QED BY <1>h, <2>1, <2>2
<1>q1. Bit(h, 0) = b[0] /\ h \div 2^1 = s1 /\ h \in Nat
  <2>1. b[0] \in 0..1 /\ s1 \in Nat /\ 0 \in 0..14 /\ 0 + 1 = 1
    BY <1>b, <1>t1
  <2>2. h \div 2^0 = b[0] + 2 * s1
    BY <1>e0, <1>q0
  <2> QED BY <1>q0, <2>1, <2>2, NextPlace
<1>q2. Bit(h, 1) = b[1] /\ h \div 2^2 = s2 /\ h \in Nat
  <2>1. b[1] \in 0..1 /\ s2 \in Nat /\ 1 \in 0..14 /\ 1 + 1 = 2
    BY <1>b, <1>t2
  <2>2. h \div 2^1 = b[1] + 2 * s2
    BY <1>e1, <1>q1
  <2> QED BY <1>q1, <2>1, <2>2, NextPlace
<1>q3. Bit(h, 2) = b[2] /\ h \div 2^3 = s3 /\ h \in Nat
  <2>1. b[2] \in 0..1 /\ s3 \in Nat /\ 2 \in 0..14 /\ 2 + 1 = 3
    BY <1>b, <1>t3
  <2>2. h \div 2^2 = b[2] + 2 * s3
    BY <1>e2, <1>q2
  <2> QED BY <1>q2, <2>1, <2>2, NextPlace
<1>q4. Bit(h, 3) = b[3] /\ h \div 2^4 = s4 /\ h \in Nat
  <2>1. b[3] \in 0..1 /\ s4 \in Nat /\ 3 \in 0..14 /\ 3 + 1 = 4
    BY <1>b, <1>t4
  <2>2. h \div 2^3 = b[3] + 2 * s4
    BY <1>e3, <1>q3
  <2> QED BY <1>q3, <2>1, <2>2, NextPlace
<1>q5. Bit(h, 4) = b[4] /\ h \div 2^5 = s5 /\ h \in Nat
  <2>1. b[4] \in 0..1 /\ s5 \in Nat /\ 4 \in 0..14 /\ 4 + 1 = 5
    BY <1>b, <1>t5
  <2>2. h \div 2^4 = b[4] + 2 * s5
    BY <1>e4, <1>q4
  <2> QED BY <1>q4, <2>1, <2>2, NextPlace
<1>q6. Bit(h, 5) = b[5] /\ h \div 2^6 = s6 /\ h \in Nat
  <2>1. b[5] \in 0..1 /\ s6 \in Nat /\ 5 \in 0..14 /\ 5 + 1 = 6
    BY <1>b, <1>t6
  <2>2. h \div 2^5 = b[5] + 2 * s6
    BY <1>e5, <1>q5
  <2> QED BY <1>q5, <2>1, <2>2, NextPlace
<1>q7. Bit(h, 6) = b[6] /\ h \div 2^7 = s7 /\ h \in Nat
  <2>1. b[6] \in 0..1 /\ s7 \in Nat /\ 6 \in 0..14 /\ 6 + 1 = 7
    BY <1>b, <1>t7
  <2>2. h \div 2^6 = b[6] + 2 * s7
    BY <1>e6, <1>q6
  <2> QED BY <1>q6, <2>1, <2>2, NextPlace
<1>q8. Bit(h, 7) = b[7] /\ h \div 2^8 = s8 /\ h \in Nat
  <2>1. b[7] \in 0..1 /\ s8 \in Nat /\ 7 \in 0..14 /\ 7 + 1 = 8
    BY <1>b, <1>t8
  <2>2. h \div 2^7 = b[7] + 2 * s8
    BY <1>e7, <1>q7
  <2> QED BY <1>q7, <2>1, <2>2, NextPlace
<1>q9. Bit(h, 8) = b[8] /\ h \div 2^9 = s9 /\ h \in Nat
  <2>1. b[8] \in 0..1 /\ s9 \in Nat /\ 8 \in 0..14 /\ 8 + 1 = 9
    BY <1>b, <1>t9
  <2>2. h \div 2^8 = b[8] + 2 * s9
    BY <1>e8, <1>q8
  <2> QED BY <1>q8, <2>1, <2>2, NextPlace
<1>q10. Bit(h, 9) = b[9] /\ h \div 2^10 = s10 /\ h \in Nat
  <2>1. b[9] \in 0..1 /\ s10 \in Nat /\ 9 \in 0..14 /\ 9 + 1 = 10
    BY <1>b, <1>t10
  <2>2. h \div 2^9 = b[9] + 2 * s10
    BY <1>e9, <1>q9
  <2> QED BY <1>q9, <2>1, <2>2, NextPlace
<1>q11. Bit(h, 10) = b[10] /\ h \div 2^11 = s11 /\ h \in Nat
  <2>1. b[10] \in 0..1 /\ s11 \in Nat /\ 10 \in 0..14 /\ 10 + 1 = 11
    BY <1>b, <1>t11
  <2>2. h \div 2^10 = b[10] + 2 * s11
    BY <1>e10, <1>q10
  <2> QED BY <1>q10, <2>1, <2>2, NextPlace
<1>q12. Bit(h, 11) = b[11] /\ h \div 2^12 = s12 /\ h \in Nat
  <2>1. b[11] \in 0..1 /\ s12 \in Nat /\ 11 \in 0..14 /\ 11 + 1 = 12
    BY <1>b, <1>t12
  <2>2. h \div 2^11 = b[11] + 2 * s12
    BY <1>e11, <1>q11
  <2> QED BY <1>q11, <2>1, <2>2, NextPlace
<1>q13. Bit(h, 12) = b[12] /\ h \div 2^13 = s13 /\ h \in Nat
  <2>1. b[12] \in 0..1 /\ s13 \in Nat /\ 12 \in 0..14 /\ 12 + 1 = 13
    BY <1>b, <1>t13
  <2>2. h \div 2^12 = b[12] + 2 * s13
    BY <1>e12, <1>q12
  <2> QED BY <1>q12, <2>1, <2>2, NextPlace
<1>q14. Bit(h, 13) = b[13] /\ h \div 2^14 = s14 /\ h \in Nat
  <2>1. b[13] \in 0..1 /\ s14 \in Nat /\ 13 \in 0..14 /\ 13 + 1 = 14
    BY <1>b, <1>t14
  <2>2. h \div 2^13 = b[13] + 2 * s14
    BY <1>e13, <1>q13
  <2> QED BY <1>q13, <2>1, <2>2, NextPlace
<1>q15. Bit(h, 14) = b[14] /\ h \div 2^15 = s15 /\ h \in Nat
  <2>1. b[14] \in 0..1 /\ s15 \in Nat /\ 14 \in 0..14 /\ 14 + 1 = 15
    BY <1>b, <1>t15
  <2>2. h \div 2^14 = b[14] + 2 * s15
    BY <1>e14, <1>q14
  <2> QED BY <1>q14, <2>1, <2>2, NextPlace
<1>q16. Bit(h, 15) = b[15]
  <2>1. b[15] % 2 = b[15]
    BY <1>b
  <2> QED BY <1>e15, <1>q15, <2>1 DEF Bit
<1> QED BY <1>h, <1>q1, <1>q2, <1>q3, <1>q4, <1>q5, <1>q6, <1>q7, <1>q8, <1>q9, <1>q10, <1>q11, <1>q12, <1>q13, <1>q14, <1>q15, <1>q16 DEF h

LEMMA BitType ==
  ASSUME NEW h \in Halves, NEW n \in 0..15
  PROVE  Bit(h, n) \in 0..1
<1>1. 2^n \in Nat \ {0}
  <2>1. CASE n \in 0..14  BY <2>1, Doubles
  <2>2. CASE n = 15  BY <2>2, Powers
  <2> QED BY <2>1, <2>2
<1>2. h \in Nat
  BY DEF Halves, Half
<1> DEFINE q == h \div 2^n
<1>3. q \in Nat
  BY <1>1, <1>2
<1>4. q % 2 \in 0..1
  <2> HIDE DEF q
  <2> QED BY <1>3
<1> QED BY <1>4 DEF Bit

\* The bits of a half's complement are the other ones.
LEMMA ComplementBits ==
  ASSUME NEW h \in Halves
  PROVE  Half - 1 - h \in Halves /\ \A n \in 0..15 : Bit(Half - 1 - h, n) = 1 - Bit(h, n)
<1> DEFINE other == Half - 1 - h
<1>1. h \in Nat /\ h <= 65535 /\ other = 65535 - h /\ other \in Halves
  <2>1. Half \in Nat \ {0} /\ Half - 1 = 65535
    BY SMT DEF Half
  <2>2. h \in Nat /\ h <= Half - 1 /\ Half - 1 - h \in 0..Half - 1
    BY <2>1 DEF Halves
  <2> QED BY SMT, <2>1, <2>2 DEF Halves
<1> HIDE DEF other
<1>b0. Bit(other, 0) = 1 - Bit(h, 0)
  <2>1. other \div 1 = 65535 - (h \div 1) /\ h \div 1 \in Nat
    BY SMT, <1>1
  <2>2. \A q \in Nat : (65535 - q) % 2 = 1 - (q % 2)
    BY SMT
  <2> QED BY <2>1, <2>2, Powers DEF Bit
<1>b1. Bit(other, 1) = 1 - Bit(h, 1)
  <2>1. other \div 2 = 32767 - (h \div 2) /\ h \div 2 \in Nat
    BY SMT, <1>1
  <2>2. \A q \in Nat : (32767 - q) % 2 = 1 - (q % 2)
    BY SMT
  <2> QED BY <2>1, <2>2, Powers DEF Bit
<1>b2. Bit(other, 2) = 1 - Bit(h, 2)
  <2>1. other \div 4 = 16383 - (h \div 4) /\ h \div 4 \in Nat
    BY SMT, <1>1
  <2>2. \A q \in Nat : (16383 - q) % 2 = 1 - (q % 2)
    BY SMT
  <2> QED BY <2>1, <2>2, Powers DEF Bit
<1>b3. Bit(other, 3) = 1 - Bit(h, 3)
  <2>1. other \div 8 = 8191 - (h \div 8) /\ h \div 8 \in Nat
    BY SMT, <1>1
  <2>2. \A q \in Nat : (8191 - q) % 2 = 1 - (q % 2)
    BY SMT
  <2> QED BY <2>1, <2>2, Powers DEF Bit
<1>b4. Bit(other, 4) = 1 - Bit(h, 4)
  <2>1. other \div 16 = 4095 - (h \div 16) /\ h \div 16 \in Nat
    BY SMT, <1>1
  <2>2. \A q \in Nat : (4095 - q) % 2 = 1 - (q % 2)
    BY SMT
  <2> QED BY <2>1, <2>2, Powers DEF Bit
<1>b5. Bit(other, 5) = 1 - Bit(h, 5)
  <2>1. other \div 32 = 2047 - (h \div 32) /\ h \div 32 \in Nat
    BY SMT, <1>1
  <2>2. \A q \in Nat : (2047 - q) % 2 = 1 - (q % 2)
    BY SMT
  <2> QED BY <2>1, <2>2, Powers DEF Bit
<1>b6. Bit(other, 6) = 1 - Bit(h, 6)
  <2>1. other \div 64 = 1023 - (h \div 64) /\ h \div 64 \in Nat
    BY SMT, <1>1
  <2>2. \A q \in Nat : (1023 - q) % 2 = 1 - (q % 2)
    BY SMT
  <2> QED BY <2>1, <2>2, Powers DEF Bit
<1>b7. Bit(other, 7) = 1 - Bit(h, 7)
  <2>1. other \div 128 = 511 - (h \div 128) /\ h \div 128 \in Nat
    BY SMT, <1>1
  <2>2. \A q \in Nat : (511 - q) % 2 = 1 - (q % 2)
    BY SMT
  <2> QED BY <2>1, <2>2, Powers DEF Bit
<1>b8. Bit(other, 8) = 1 - Bit(h, 8)
  <2>1. other \div 256 = 255 - (h \div 256) /\ h \div 256 \in Nat
    BY SMT, <1>1
  <2>2. \A q \in Nat : (255 - q) % 2 = 1 - (q % 2)
    BY SMT
  <2> QED BY <2>1, <2>2, Powers DEF Bit
<1>b9. Bit(other, 9) = 1 - Bit(h, 9)
  <2>1. other \div 512 = 127 - (h \div 512) /\ h \div 512 \in Nat
    BY SMT, <1>1
  <2>2. \A q \in Nat : (127 - q) % 2 = 1 - (q % 2)
    BY SMT
  <2> QED BY <2>1, <2>2, Powers DEF Bit
<1>b10. Bit(other, 10) = 1 - Bit(h, 10)
  <2>1. other \div 1024 = 63 - (h \div 1024) /\ h \div 1024 \in Nat
    BY SMT, <1>1
  <2>2. \A q \in Nat : (63 - q) % 2 = 1 - (q % 2)
    BY SMT
  <2> QED BY <2>1, <2>2, Powers DEF Bit
<1>b11. Bit(other, 11) = 1 - Bit(h, 11)
  <2>1. other \div 2048 = 31 - (h \div 2048) /\ h \div 2048 \in Nat
    BY SMT, <1>1
  <2>2. \A q \in Nat : (31 - q) % 2 = 1 - (q % 2)
    BY SMT
  <2> QED BY <2>1, <2>2, Powers DEF Bit
<1>b12. Bit(other, 12) = 1 - Bit(h, 12)
  <2>1. other \div 4096 = 15 - (h \div 4096) /\ h \div 4096 \in Nat
    BY SMT, <1>1
  <2>2. \A q \in Nat : (15 - q) % 2 = 1 - (q % 2)
    BY SMT
  <2> QED BY <2>1, <2>2, Powers DEF Bit
<1>b13. Bit(other, 13) = 1 - Bit(h, 13)
  <2>1. other \div 8192 = 7 - (h \div 8192) /\ h \div 8192 \in Nat
    BY SMT, <1>1
  <2>2. \A q \in Nat : (7 - q) % 2 = 1 - (q % 2)
    BY SMT
  <2> QED BY <2>1, <2>2, Powers DEF Bit
<1>b14. Bit(other, 14) = 1 - Bit(h, 14)
  <2>1. other \div 16384 = 3 - (h \div 16384) /\ h \div 16384 \in Nat
    BY SMT, <1>1
  <2>2. \A q \in Nat : (3 - q) % 2 = 1 - (q % 2)
    BY SMT
  <2> QED BY <2>1, <2>2, Powers DEF Bit
<1>b15. Bit(other, 15) = 1 - Bit(h, 15)
  <2>1. other \div 32768 = 1 - (h \div 32768) /\ h \div 32768 \in Nat
    BY SMT, <1>1
  <2>2. \A q \in Nat : (1 - q) % 2 = 1 - (q % 2)
    BY SMT
  <2> QED BY <2>1, <2>2, Powers DEF Bit
<1> QED BY <1>1, <1>b0, <1>b1, <1>b2, <1>b3, <1>b4, <1>b5, <1>b6, <1>b7, <1>b8, <1>b9, <1>b10, <1>b11, <1>b12, <1>b13, <1>b14, <1>b15 DEF other

\* The operations on halves work bit by bit.
LEMMA XorBits ==
  ASSUME NEW g \in Halves, NEW h \in Halves
  PROVE  /\ XorHalf(g, h) \in Halves
         /\ \A n \in 0..15 : Bit(XorHalf(g, h), n) = (Bit(g, n) + Bit(h, n)) % 2
<1>1. \A n \in 0..15 : Bit(g, n) \in {0, 1} /\ Bit(h, n) \in {0, 1}
  BY BitType
<1>2. \A p, q \in {0, 1} : (p + q) % 2 \in 0..1
  OBVIOUS
<1>3. [n \in 0..15 |-> (Bit(g, n) + Bit(h, n)) % 2] \in [0..15 -> 0..1]
  BY <1>1, <1>2, Zenon
<1> QED BY <1>3, BitsOf, Zenon DEF XorHalf

LEMMA AndBits ==
  ASSUME NEW g \in Halves, NEW h \in Halves
  PROVE  /\ AndHalf(g, h) \in Halves
         /\ \A n \in 0..15 : Bit(AndHalf(g, h), n) = Bit(g, n) * Bit(h, n)
<1>1. \A n \in 0..15 : Bit(g, n) \in {0, 1} /\ Bit(h, n) \in {0, 1}
  BY BitType
<1>2. \A p, q \in {0, 1} : p * q \in 0..1
  OBVIOUS
<1>3. [n \in 0..15 |-> Bit(g, n) * Bit(h, n)] \in [0..15 -> 0..1]
  BY <1>1, <1>2, Zenon
<1> QED BY <1>3, BitsOf, Zenon DEF AndHalf

LEMMA OrBits ==
  ASSUME NEW g \in Halves, NEW h \in Halves
  PROVE  /\ OrHalf(g, h) \in Halves
         /\ \A n \in 0..15 : Bit(OrHalf(g, h), n) = 1 - (1 - Bit(g, n)) * (1 - Bit(h, n))
<1>1. \A n \in 0..15 : Bit(g, n) \in {0, 1} /\ Bit(h, n) \in {0, 1}
  BY BitType
<1>2. \A p, q \in {0, 1} : 1 - (1 - p) * (1 - q) \in 0..1
  OBVIOUS
<1>3. [n \in 0..15 |-> 1 - (1 - Bit(g, n)) * (1 - Bit(h, n))] \in [0..15 -> 0..1]
  BY <1>1, <1>2, Zenon
<1> QED BY <1>3, BitsOf, Zenon DEF OrHalf

LEMMA ChOfBits ==
  \A p, q, r \in {0, 1} : (r + p * ((q + r) % 2)) % 2 = (p * q + (1 - p) * r) % 2
  BY SMT

LEMMA MajOfBits ==
  \A p, q, r \in {0, 1} :
    1 - (1 - p * q) * (1 - r * (1 - (1 - p) * (1 - q)))
      = (((p * q + p * r) % 2) + q * r) % 2
  BY SMT

\* Ch and Maj as hashBlock writes them, and as FIPS 180-2 does.
LEMMA ChOfHalves ==
  ASSUME NEW b \in Halves, NEW c \in Halves, NEW d \in Halves
  PROVE  XorHalf(d, AndHalf(b, XorHalf(c, d)))
           = XorHalf(AndHalf(b, c), AndHalf(Half - 1 - b, d))
<1> DEFINE other == Half - 1 - b
<1>1. other \in Halves /\ \A n \in 0..15 : Bit(other, n) = 1 - Bit(b, n)
  BY ComplementBits, Zenon
<1> DEFINE v == XorHalf(c, d)
<1>2. v \in Halves /\ \A n \in 0..15 : Bit(v, n) = (Bit(c, n) + Bit(d, n)) % 2
  BY XorBits, Zenon
<1> HIDE DEF other, v
<1> DEFINE x == AndHalf(b, v)
           y == AndHalf(b, c)
           z == AndHalf(other, d)
<1>3. \A n \in 0..15 : /\ Bit(x, n) = Bit(b, n) * Bit(v, n)
                       /\ Bit(y, n) = Bit(b, n) * Bit(c, n)
                       /\ Bit(z, n) = Bit(other, n) * Bit(d, n)
  BY <1>1, <1>2, AndBits, Zenon
<1> HIDE DEF x, y, z
<1>4. \A n \in 0..15 : (Bit(d, n) + Bit(x, n)) % 2 = (Bit(y, n) + Bit(z, n)) % 2
  <2>1. TAKE n \in 0..15
  <2>2. Bit(b, n) \in {0, 1} /\ Bit(c, n) \in {0, 1} /\ Bit(d, n) \in {0, 1}
    BY BitType
  <2>3. (Bit(d, n) + Bit(b, n) * ((Bit(c, n) + Bit(d, n)) % 2)) % 2
          = (Bit(b, n) * Bit(c, n) + (1 - Bit(b, n)) * Bit(d, n)) % 2
    BY <2>2, ChOfBits, Zenon
  <2> QED BY <1>1, <1>2, <1>3, <2>3, Zenon
<1>5. XorHalf(d, x) = XorHalf(y, z)
  <2>1. [n \in 0..15 |-> (Bit(d, n) + Bit(x, n)) % 2] = [n \in 0..15 |-> (Bit(y, n) + Bit(z, n)) % 2]
    BY <1>4, Zenon
  <2> QED BY <2>1, Zenon DEF XorHalf
<1> QED BY <1>5, Zenon DEF x, y, z, v, other

LEMMA MajOfHalves ==
  ASSUME NEW b \in Halves, NEW c \in Halves, NEW d \in Halves
  PROVE  OrHalf(AndHalf(b, c), AndHalf(d, OrHalf(b, c)))
           = XorHalf(XorHalf(AndHalf(b, c), AndHalf(b, d)), AndHalf(c, d))
<1> DEFINE either == OrHalf(b, c)
           both == AndHalf(b, c)
           bd == AndHalf(b, d)
           cd == AndHalf(c, d)
           x == AndHalf(d, either)
           y == XorHalf(both, bd)
<1>1. /\ either \in Halves /\ both \in Halves /\ bd \in Halves /\ cd \in Halves
      /\ \A n \in 0..15 : /\ Bit(either, n) = 1 - (1 - Bit(b, n)) * (1 - Bit(c, n))
                          /\ Bit(both, n) = Bit(b, n) * Bit(c, n)
                          /\ Bit(bd, n) = Bit(b, n) * Bit(d, n)
                          /\ Bit(cd, n) = Bit(c, n) * Bit(d, n)
  <2>1. /\ either \in Halves
        /\ \A n \in 0..15 : Bit(either, n) = 1 - (1 - Bit(b, n)) * (1 - Bit(c, n))
    BY OrBits, Zenon
  <2>2. both \in Halves /\ \A n \in 0..15 : Bit(both, n) = Bit(b, n) * Bit(c, n)
    BY AndBits, Zenon
  <2>3. bd \in Halves /\ \A n \in 0..15 : Bit(bd, n) = Bit(b, n) * Bit(d, n)
    BY AndBits, Zenon
  <2>4. cd \in Halves /\ \A n \in 0..15 : Bit(cd, n) = Bit(c, n) * Bit(d, n)
    BY AndBits, Zenon
  <2> HIDE DEF either, both, bd, cd
  <2> QED BY <2>1, <2>2, <2>3, <2>4
<1> HIDE DEF either, both, bd, cd
<1>2. \A n \in 0..15 : /\ Bit(x, n) = Bit(d, n) * Bit(either, n)
                       /\ Bit(y, n) = (Bit(both, n) + Bit(bd, n)) % 2
  <2>1. \A n \in 0..15 : Bit(x, n) = Bit(d, n) * Bit(either, n)
    BY <1>1, AndBits, Zenon
  <2>2. \A n \in 0..15 : Bit(y, n) = (Bit(both, n) + Bit(bd, n)) % 2
    BY <1>1, XorBits, Zenon
  <2> QED BY <2>1, <2>2
<1> HIDE DEF x, y
<1>3. \A n \in 0..15 : 1 - (1 - Bit(both, n)) * (1 - Bit(x, n)) = (Bit(y, n) + Bit(cd, n)) % 2
  <2>1. TAKE n \in 0..15
  <2>2. Bit(b, n) \in {0, 1} /\ Bit(c, n) \in {0, 1} /\ Bit(d, n) \in {0, 1}
    BY BitType
  <2>3. 1 - (1 - Bit(b, n) * Bit(c, n)) * (1 - Bit(d, n) * (1 - (1 - Bit(b, n)) * (1 - Bit(c, n))))
          = (((Bit(b, n) * Bit(c, n) + Bit(b, n) * Bit(d, n)) % 2) + Bit(c, n) * Bit(d, n)) % 2
    BY <2>2, MajOfBits, Zenon
  <2> QED BY <1>1, <1>2, <2>3, Zenon
<1>4. OrHalf(both, x) = XorHalf(y, cd)
  <2>1. [n \in 0..15 |-> 1 - (1 - Bit(both, n)) * (1 - Bit(x, n))]
          = [n \in 0..15 |-> (Bit(y, n) + Bit(cd, n)) % 2]
    BY <1>3, Zenon
  <2> QED BY <2>1, Zenon DEF OrHalf, XorHalf
<1> QED BY <1>4, Zenon DEF x, y, either, both, bd, cd

\* The words of the operations on words, and the sums.
LEMMA WordHalves ==
  ASSUME NEW x \in Word
  PROVE  /\ x[1] \in Halves /\ x[2] \in Halves /\ x = << x[1], x[2] >>
         /\ x[1] \in Nat /\ x[2] \in Nat
<1>1. x[1] \in Halves /\ x[2] \in Halves /\ x = << x[1], x[2] >>
  BY SMT DEF Word
<1>2. \A h \in Halves : h \in Nat
  BY DEF Halves, Half
<1> QED BY <1>1, <1>2, Zenon

LEMMA WordMade ==
  ASSUME NEW g \in Halves, NEW h \in Halves
  PROVE  /\ << g, h >> \in Word /\ << g, h >>[1] = g /\ << g, h >>[2] = h
  BY SMT DEF Word

LEMMA BitWords ==
  ASSUME NEW x \in Word, NEW y \in Word
  PROVE  BitXor(x, y) \in Word /\ BitAnd(x, y) \in Word /\ BitOr(x, y) \in Word
  BY WordHalves, WordMade, XorBits, AndBits, OrBits, Zenon DEF BitXor, BitAnd, BitOr

LEMMA ChRewritten ==
  ASSUME NEW b \in Word, NEW c \in Word, NEW d \in Word
  PROVE  BitXor(d, BitAnd(b, BitXor(c, d))) = Ch(b, c, d)
<1>1. /\ b[1] \in Halves /\ b[2] \in Halves /\ c[1] \in Halves /\ c[2] \in Halves
      /\ d[1] \in Halves /\ d[2] \in Halves
  BY WordHalves
<1> QED BY <1>1, ChOfHalves, SMT DEF BitXor, BitAnd, Complement, Ch

LEMMA MajRewritten ==
  ASSUME NEW b \in Word, NEW c \in Word, NEW d \in Word
  PROVE  BitOr(BitAnd(b, c), BitAnd(d, BitOr(b, c))) = Maj(b, c, d)
<1>1. /\ b[1] \in Halves /\ b[2] \in Halves /\ c[1] \in Halves /\ c[2] \in Halves
      /\ d[1] \in Halves /\ d[2] \in Halves
  BY WordHalves
<1> QED BY <1>1, MajOfHalves, SMT DEF BitXor, BitAnd, BitOr, Maj

-------------------------------------------------------------------------------
(* Sha1Block: sums and rotations of words. *)

LEMMA CarriedOn ==
  ASSUME NEW a \in Nat, NEW b \in Nat
  PROVE  /\ a % Half \in Halves /\ a % Half \in Nat /\ a \div Half \in Nat
         /\ ((a % Half) + b) % Half = (a + b) % Half
         /\ (a \div Half) + (((a % Half) + b) \div Half) = (a + b) \div Half
<1>1. Half = 65536
  BY DEF Half
<1>2. Half \in Nat \ {0}
  BY <1>1, SMT
<1>3. a % Half \in Halves /\ a % Half \in Nat /\ a \div Half \in Nat
  BY <1>2 DEF Halves
<1>4. /\ ((a % 65536) + b) % 65536 = (a + b) % 65536
      /\ (a \div 65536) + (((a % 65536) + b) \div 65536) = (a + b) \div 65536
  BY SMT
<1> QED BY <1>1, <1>3, <1>4, SMT

LEMMA PlusType ==
  ASSUME NEW x \in Word, NEW y \in Word
  PROVE  Plus(x, y) \in Word
<1>1. x[1] \in Nat /\ x[2] \in Nat /\ y[1] \in Nat /\ y[2] \in Nat
  BY WordHalves, Zenon
<1> DEFINE carry == (x[2] + y[2]) \div Half
           low == x[2] + y[2]
           high == x[1] + y[1] + carry
<1>2. low \in Nat
  BY <1>1
<1>3. carry \in Nat
  BY <1>2, CarriedOn
<1>4. high \in Nat
  <2> HIDE DEF carry
  <2> QED BY <1>1, <1>3
<1>5. high % Half \in Halves /\ low % Half \in Halves
  <2> HIDE DEF high, low
  <2> QED BY <1>2, <1>4, CarriedOn
<1>6. Plus(x, y) = << high % Half, low % Half >>
  BY Zenon DEF Plus
<1> HIDE DEF high, low
<1> QED BY <1>5, <1>6, WordMade, Zenon

LEMMA PlusCommutes ==
  ASSUME NEW x \in Word, NEW y \in Word
  PROVE  Plus(x, y) = Plus(y, x)
<1>1. x[1] \in Nat /\ x[2] \in Nat /\ y[1] \in Nat /\ y[2] \in Nat
  BY WordHalves, Zenon
<1>2. x[2] + y[2] = y[2] + x[2] /\ x[1] + y[1] = y[1] + x[1]
  BY <1>1
<1> QED BY <1>2, Zenon DEF Plus

\* The sum of three words, with one carry from half to half.
Sum3(x, y, z) ==
  << (x[1] + y[1] + z[1] + (x[2] + y[2] + z[2]) \div Half) % Half, (x[2] + y[2] + z[2]) % Half >>

LEMMA PlusThree ==
  ASSUME NEW x \in Word, NEW y \in Word, NEW z \in Word
  PROVE  Plus(Plus(x, y), z) = Sum3(x, y, z)
<1>1. /\ x[1] \in Nat /\ x[2] \in Nat /\ y[1] \in Nat /\ y[2] \in Nat
      /\ z[1] \in Nat /\ z[2] \in Nat
  BY WordHalves, Zenon
<1> DEFINE low == x[2] + y[2]
           carry == low \div Half
           high == x[1] + y[1] + carry
           low3 == (low % Half) + z[2]
           carry3 == low3 \div Half
<1>2. low \in Nat
  BY <1>1
<1>3. /\ carry \in Nat /\ low3 % Half = (low + z[2]) % Half /\ low3 \in Nat
      /\ carry + carry3 = (low + z[2]) \div Half
  <2> HIDE DEF low
  <2>1. carry \in Nat /\ low % Half \in Nat
    BY <1>2, CarriedOn
  <2>2. low3 % Half = (low + z[2]) % Half /\ carry + carry3 = (low + z[2]) \div Half
    BY <1>1, <1>2, CarriedOn, Zenon
  <2> QED BY <1>1, <2>1, <2>2
<1>4. carry3 \in Nat
  <2> HIDE DEF low3
  <2> QED BY <1>3, CarriedOn
<1>5. high \in Nat /\ z[1] + carry3 \in Nat /\ high % Half \in Nat
  <2> HIDE DEF carry, carry3
  <2>1. high \in Nat
    BY <1>1, <1>3
  <2> HIDE DEF high
  <2>2. high % Half \in Nat
    BY <2>1, CarriedOn
  <2> QED BY <1>1, <1>4, <2>1, <2>2
<1>6. ((high % Half) + (z[1] + carry3)) % Half = (high + (z[1] + carry3)) % Half
  <2> HIDE DEF high, carry3
  <2> QED BY <1>5, CarriedOn
<1>7. (high % Half) + (z[1] + carry3) = (high % Half) + z[1] + carry3
  <2> HIDE DEF high, carry3
  <2> QED BY <1>1, <1>4, <1>5
<1>8. high + (z[1] + carry3) = x[1] + y[1] + z[1] + ((low + z[2]) \div Half)
  <2>1. high + (z[1] + carry3) = x[1] + y[1] + z[1] + (carry + carry3)
    <3> HIDE DEF carry, carry3
    <3> QED BY <1>1, <1>3, <1>4
  <2> QED BY <1>3, <2>1, Zenon
<1>9. Plus(Plus(x, y), z) = << ((high % Half) + z[1] + carry3) % Half, low3 % Half >>
  BY Zenon, WordMade DEF Plus
<1> QED BY <1>3, <1>6, <1>7, <1>8, <1>9, Zenon DEF Sum3

LEMMA PlusAssociates ==
  ASSUME NEW x \in Word, NEW y \in Word, NEW z \in Word
  PROVE  Plus(Plus(x, y), z) = Plus(x, Plus(y, z))
<1>1. /\ x[1] \in Nat /\ x[2] \in Nat /\ y[1] \in Nat /\ y[2] \in Nat
      /\ z[1] \in Nat /\ z[2] \in Nat
  BY WordHalves, Zenon
<1>2. x[1] + y[1] + z[1] = y[1] + z[1] + x[1] /\ x[2] + y[2] + z[2] = y[2] + z[2] + x[2]
  BY <1>1
<1>3. Sum3(x, y, z) = Sum3(y, z, x)
  BY <1>2, Zenon DEF Sum3
<1>4. Plus(x, Plus(y, z)) = Plus(Plus(y, z), x)
  BY PlusType, PlusCommutes
<1> QED BY <1>3, <1>4, PlusThree

\* The constants and the rotations the rounds use give words.
LEMMA RotatedWord ==
  ASSUME NEW x \in Word
  PROVE  rol32(x, 1) \in Word /\ rol32(x, 5) \in Word /\ rol32(x, 30) \in Word
<1>1. \A g, h \in Nat : \A m, d \in Nat \ {0} : (g * m + (h \div d)) % Half \in Halves
  <2> SUFFICES ASSUME NEW g \in Nat, NEW h \in Nat, NEW m \in Nat \ {0}, NEW d \in Nat \ {0}
               PROVE  (g * m + (h \div d)) % Half \in Halves
    OBVIOUS
  <2>1. h \div d \in Nat /\ g * m \in Nat
    BY SMT
  <2> DEFINE sum == g * m + (h \div d)
  <2>2. sum \in Nat
    BY <2>1
  <2> HIDE DEF sum
  <2>3. sum % Half \in Halves
    BY <2>2, CarriedOn
  <2> QED BY <2>3 DEF sum
<1>2. /\ 2^1 \in Nat \ {0} /\ 2^15 \in Nat \ {0} /\ 2^5 \in Nat \ {0} /\ 2^11 \in Nat \ {0}
      /\ 2^14 \in Nat \ {0} /\ 2^2 \in Nat \ {0}
  BY Powers, SMT
<1>3. 16 - 1 = 15 /\ 16 - 5 = 11 /\ 16 - 14 = 2 /\ 30 - 16 = 14 /\ 1 < 16 /\ 5 < 16 /\ ~ (30 < 16)
  BY SMT
<1>4. \A n \in {1, 5, 14} : 2^n \in Nat \ {0} /\ 2^(16 - n) \in Nat \ {0}
  BY <1>2, <1>3, Zenon
<1>5. \A y \in Word : \A n \in {1, 5, 14} : RolLow(y, n) \in Word
  BY <1>1, <1>4, WordHalves, WordMade, Zenon DEF RolLow
<1>6. << x[2], x[1] >> \in Word
  BY WordHalves, WordMade, Zenon
<1>7. rol32(x, 1) = RolLow(x, 1) /\ rol32(x, 5) = RolLow(x, 5)
      /\ rol32(x, 30) = RolLow(<< x[2], x[1] >>, 14)
  BY <1>3, Zenon DEF rol32
<1> QED BY <1>5, <1>6, <1>7, Zenon

LEMMA RoundConstants ==
  /\ SHA1_K0 \in Word /\ SHA1_K20 \in Word /\ SHA1_K40 \in Word /\ SHA1_K60 \in Word
  /\ sha1InitState \in [1..5 -> Word]
<1>1. /\ 23170 \in Halves /\ 31129 \in Halves /\ 28377 \in Halves /\ 60321 \in Halves
      /\ 36635 \in Halves /\ 48348 \in Halves /\ 51810 \in Halves /\ 49622 \in Halves
  BY HalfBound, SMT
<1>2. /\ 26437 \in Halves /\ 8961 \in Halves /\ 61389 \in Halves /\ 43913 \in Halves
      /\ 39098 \in Halves /\ 56574 \in Halves /\ 4146 \in Halves /\ 21622 \in Halves
      /\ 50130 \in Halves /\ 57840 \in Halves
  BY HalfBound, SMT
<1>3. SHA1_K0 \in Word /\ SHA1_K20 \in Word /\ SHA1_K40 \in Word /\ SHA1_K60 \in Word
  BY <1>1, SMT DEF Word, SHA1_K0, SHA1_K20, SHA1_K40, SHA1_K60
<1>4. /\ << 26437, 8961 >> \in Word /\ << 61389, 43913 >> \in Word /\ << 39098, 56574 >> \in Word
      /\ << 4146, 21622 >> \in Word /\ << 50130, 57840 >> \in Word
  BY <1>2, SMT DEF Word
<1> HIDE DEF Word
<1>5. ASSUME NEW a \in Word, NEW b \in Word, NEW c \in Word, NEW d \in Word, NEW e \in Word
      PROVE  << a, b, c, d, e >> \in [1..5 -> Word]
  BY SMT
<1>6. sha1InitState \in [1..5 -> Word]
  BY SMT, <1>4, <1>5 DEF sha1InitState
<1> QED BY <1>3, <1>6

\* The function and the constant of each round.
LEMMA RoundFunction ==
  ASSUME NEW t \in 0..79, NEW b \in Word, NEW c \in Word, NEW d \in Word
  PROVE  /\ Mixed(t, b, c, d) = Plus(Function(t, b, c, d), Constant(t))
         /\ Function(t, b, c, d) \in Word /\ Constant(t) \in Word
<1>1. /\ Ch(b, c, d) \in Word /\ Parity(b, c, d) \in Word /\ Maj(b, c, d) \in Word
  <2>1. Parity(b, c, d) \in Word
    BY BitWords, Zenon DEF Parity
  <2>2. Ch(b, c, d) \in Word
    BY BitWords, ChRewritten
  <2>3. Maj(b, c, d) \in Word
    BY BitWords, Zenon DEF Maj
  <2> QED BY <2>1, <2>2, <2>3
<1>2. CASE t < 20
  <2>1. Function(t, b, c, d) = Ch(b, c, d) /\ Constant(t) = SHA1_K0
    BY <1>2 DEF Function, Constant
  <2> QED BY <1>1, <1>2, <2>1, ChRewritten, RoundConstants, Zenon DEF Mixed
<1>3. CASE t \in 20..39
  <2>1. Function(t, b, c, d) = Parity(b, c, d) /\ Constant(t) = SHA1_K20 /\ ~ (t < 20) /\ t < 40
    BY <1>3 DEF Function, Constant
  <2> QED BY <1>1, <2>1, RoundConstants, Zenon DEF Mixed, Parity
<1>4. CASE t \in 40..59
  <2>1. /\ Function(t, b, c, d) = Maj(b, c, d) /\ Constant(t) = SHA1_K40
        /\ ~ (t < 20) /\ ~ (t < 40) /\ t < 60
    BY <1>4 DEF Function, Constant
  <2> QED BY <1>1, <2>1, MajRewritten, RoundConstants, Zenon DEF Mixed
<1>5. CASE t \in 60..79
  <2>1. /\ Function(t, b, c, d) = Parity(b, c, d) /\ Constant(t) = SHA1_K60
        /\ ~ (t < 20) /\ ~ (t < 40) /\ ~ (t < 60)
    BY <1>5 DEF Function, Constant
  <2> QED BY <1>1, <2>1, RoundConstants, Zenon DEF Mixed, Parity
<1> QED BY <1>2, <1>3, <1>4, <1>5

\* The sum of the round's five words, in the order the code adds them in.
LEMMA PlusSwaps ==
  ASSUME NEW x \in Word, NEW y \in Word, NEW z \in Word
  PROVE  Plus(Plus(x, y), z) = Plus(Plus(x, z), y)
<1>1. Plus(Plus(x, y), z) = Plus(x, Plus(y, z)) /\ Plus(Plus(x, z), y) = Plus(x, Plus(z, y))
  BY PlusAssociates
<1>2. Plus(y, z) = Plus(z, y)
  BY PlusCommutes
<1> QED BY <1>1, <1>2, Zenon

LEMMA FiveWords ==
  ASSUME NEW f \in Word, NEW k \in Word, NEW r \in Word, NEW e \in Word, NEW v \in Word
  PROVE  Plus(Plus(Plus(f, k), r), Plus(e, v)) = Plus(Plus(Plus(Plus(r, f), e), k), v)
<1>1. /\ Plus(f, k) \in Word /\ Plus(f, r) \in Word /\ Plus(Plus(f, k), r) \in Word
  BY PlusType
<1>2. Plus(Plus(Plus(f, k), r), Plus(e, v)) = Plus(Plus(Plus(Plus(f, k), r), e), v)
  BY <1>1, PlusAssociates
<1>3. Plus(Plus(f, k), r) = Plus(Plus(f, r), k)
  BY PlusSwaps
<1>4. Plus(Plus(Plus(f, r), k), e) = Plus(Plus(Plus(f, r), e), k)
  BY <1>1, PlusSwaps
<1>5. Plus(f, r) = Plus(r, f)
  BY PlusCommutes
<1> QED BY <1>2, <1>3, <1>4, <1>5, Zenon

-------------------------------------------------------------------------------
(* AcceptKey: the eighty rounds. *)

Block == [1..BlockLength -> Byte]

\* Where the rounds are: the last sixteen words of FIPS 180-2's schedule are in
\* the block, each at its place modulo 16, in front of the words of the message
\* that no round has come to.
RoundInv ==
  /\ round \in 0..80 \union {Returned} /\ hashState \in [1..5 -> Word]
  /\ round = Returned => registers = <<>> /\ reference = <<>>
  /\ round # Returned =>
       /\ Last(hashed) \in Block
       /\ registers = reference /\ registers \in [1..5 -> Word]
       /\ words \in [0..15 -> Word] /\ schedule \in Seq(Word) /\ Len(schedule) = round
       /\ \A i \in 0..round - 1 : i + 16 >= round => words[i % 16] = schedule[i + 1]
       /\ \A j \in 0..15 : j >= round => words[j] = Words(Last(hashed))[j]

LEMMA WordsTyped ==
  ASSUME BlockLength = 64, NEW block \in Block
  PROVE  Words(block) \in [0..15 -> Word]
<1>1. ASSUME NEW g \in Byte, NEW h \in Byte, NEW k \in Byte, NEW l \in Byte
      PROVE  << 256 * g + h, 256 * k + l >> \in Word
  <2>1. ASSUME NEW p \in Byte, NEW q \in Byte PROVE 256 * p + q \in Halves
    <3> DEFINE sum == 256 * p + q
    <3>1. sum \in Nat /\ sum <= 65535
      BY SMT DEF Byte
    <3> HIDE DEF sum
    <3>2. sum \in Halves
      BY <3>1, HalfBound
    <3> QED BY <3>2 DEF sum
  <2> DEFINE high == 256 * g + h
             low == 256 * k + l
  <2>2. high \in Halves /\ low \in Halves
    BY <2>1, Zenon
  <2> HIDE DEF high, low
  <2>3. << high, low >> \in Word
    BY <2>2, WordMade, Zenon
  <2> QED BY <2>3 DEF high, low
<1>2. ASSUME NEW i \in 0..15
      PROVE  << 256 * block[4 * i + 1] + block[4 * i + 2],
                256 * block[4 * i + 3] + block[4 * i + 4] >> \in Word
  <2>1. 4 * i + 1 \in 1..64 /\ 4 * i + 2 \in 1..64 /\ 4 * i + 3 \in 1..64 /\ 4 * i + 4 \in 1..64
    OBVIOUS
  <2>2. /\ block[4 * i + 1] \in Byte /\ block[4 * i + 2] \in Byte
        /\ block[4 * i + 3] \in Byte /\ block[4 * i + 4] \in Byte
    BY <2>1, Zenon DEF Block
  <2> DEFINE g == block[4 * i + 1]
             h == block[4 * i + 2]
             k == block[4 * i + 3]
             l == block[4 * i + 4]
  <2>3. g \in Byte /\ h \in Byte /\ k \in Byte /\ l \in Byte
    BY <2>2
  <2> HIDE DEF g, h, k, l
  <2>4. << 256 * g + h, 256 * k + l >> \in Word
    BY <1>1, <2>3
  <2> QED BY <2>4 DEF g, h, k, l
<1> QED BY <1>2, Zenon DEF Words

\* The word of round i is the schedule's, and is a word.
LEMMA ScheduledAsFips180 ==
  ASSUME BlockLength = 64, RoundInv, round \in 0..79
  PROVE  \E v \in Word : /\ Scheduled(words, round) = v
                         /\ Scheduled80(schedule, Last(hashed), round) = Append(schedule, v)
<1>1. /\ Last(hashed) \in Block /\ words \in [0..15 -> Word]
      /\ schedule \in Seq(Word) /\ Len(schedule) = round
      /\ \A i \in 0..round - 1 : i + 16 >= round => words[i % 16] = schedule[i + 1]
      /\ \A j \in 0..15 : j >= round => words[j] = Words(Last(hashed))[j]
  BY DEF RoundInv, Returned
<1>2. CASE round < 16
  <2>1. round \in 0..15 /\ words[round] = Words(Last(hashed))[round] /\ words[round] \in Word
    BY <1>1, <1>2
  <2>2. /\ Scheduled(words, round) = words[round]
        /\ Scheduled80(schedule, Last(hashed), round) = Append(schedule, Words(Last(hashed))[round])
    BY <1>2, Zenon DEF Scheduled, Scheduled80
  <2> QED BY <2>1, <2>2, Zenon
<1>3. CASE ~ (round < 16)
  <2>1. /\ words[(round + 13) % 16] = schedule[round - 2]
        /\ words[(round + 8) % 16] = schedule[round - 7]
        /\ words[(round + 2) % 16] = schedule[round - 13]
        /\ words[round % 16] = schedule[round - 15]
    <3>1. ASSUME NEW n \in 1..16 PROVE words[(round - n) % 16] = schedule[round - n + 1]
      <4>1. round - n \in 0..round - 1 /\ (round - n) + 16 >= round
        BY <1>3
      <4> QED BY <1>1, <4>1
    <3>2. /\ (round + 13) % 16 = (round - 3) % 16 /\ (round + 8) % 16 = (round - 8) % 16
          /\ (round + 2) % 16 = (round - 14) % 16 /\ round % 16 = (round - 16) % 16
      BY SMT
    <3>3. /\ round - 3 + 1 = round - 2 /\ round - 8 + 1 = round - 7
          /\ round - 14 + 1 = round - 13 /\ round - 16 + 1 = round - 15
      BY SMT
    <3>4. 3 \in 1..16 /\ 8 \in 1..16 /\ 14 \in 1..16 /\ 16 \in 1..16
      BY SMT
    <3> QED BY <3>1, <3>2, <3>3, <3>4, Zenon
  <2>2. \A n \in Int : words[n % 16] \in Word
    BY <1>1
  <2> DEFINE x == BitXor(BitXor(schedule[round - 2], schedule[round - 7]),
                         BitXor(schedule[round - 13], schedule[round - 15]))
  <2>3. x \in Word
    <3>1. round + 13 \in Int /\ round + 8 \in Int /\ round + 2 \in Int /\ round \in Int
      BY SMT
    <3>2. /\ schedule[round - 2] \in Word /\ schedule[round - 7] \in Word
          /\ schedule[round - 13] \in Word /\ schedule[round - 15] \in Word
      BY <2>1, <2>2, <3>1, Zenon
    <3> QED BY <3>2, BitWords, Zenon
  <2>4. /\ Scheduled(words, round) = rol32(x, 1)
        /\ Scheduled80(schedule, Last(hashed), round) = Append(schedule, rol32(x, 1))
    BY <1>3, <2>1, Zenon DEF Scheduled, Scheduled80
  <2> HIDE DEF x
  <2> QED BY <2>3, <2>4, RotatedWord, Zenon
<1> QED BY <1>2, <1>3

\* The registers after a round are FIPS 180-2's after its.
LEMMA RegistersAsFips180 ==
  ASSUME NEW t \in 0..79, NEW s \in [1..5 -> Word], NEW w, NEW S, NEW v \in Word,
         Scheduled(w, t) = v, S[t + 1] = v
  PROVE  /\ NextRegisters(t, w, s) = Step(t, s, S)
         /\ NextRegisters(t, w, s) \in [1..5 -> Word]
<1>1. /\ s[1] \in Word /\ s[2] \in Word /\ s[3] \in Word /\ s[4] \in Word /\ s[5] \in Word
  OBVIOUS
<1> DEFINE f == Function(t, s[2], s[3], s[4])
           k == Constant(t)
           r == rol32(s[1], 5)
           turned == rol32(s[2], 30)
           next == Plus(Plus(Plus(Plus(r, f), s[5]), k), v)
<1>2. f \in Word /\ k \in Word /\ Mixed(t, s[2], s[3], s[4]) = Plus(f, k)
  BY <1>1, RoundFunction
<1>3. r \in Word /\ turned \in Word
  BY <1>1, RotatedWord
<1>4. /\ NextRegisters(t, w, s)
           = << Plus(Plus(Plus(f, k), r), Plus(s[5], v)), s[1], turned, s[3], s[4] >>
      /\ Step(t, s, S) = << next, s[1], turned, s[3], s[4] >>
  <2>1. NextRegisters(t, w, s)
          = << Plus(Plus(Mixed(t, s[2], s[3], s[4]), r), Plus(s[5], Scheduled(w, t))),
               s[1], turned, s[3], s[4] >>
    BY Zenon DEF NextRegisters
  <2>2. Step(t, s, S) = << Plus(Plus(Plus(Plus(r, f), s[5]), k), S[t + 1]), s[1], turned, s[3], s[4] >>
    BY Zenon DEF Step
  <2> QED BY <1>2, <2>1, <2>2, Zenon
<1> HIDE DEF f, k, r, turned
<1>5. Plus(Plus(Plus(f, k), r), Plus(s[5], v)) = next
  BY <1>1, <1>2, <1>3, FiveWords
<1>6. next \in Word
  BY <1>1, <1>2, <1>3, PlusType
<1> HIDE DEF next
<1>7. << next, s[1], turned, s[3], s[4] >> \in [1..5 -> Word]
  BY <1>1, <1>3, <1>6, SMT
<1> QED BY <1>4, <1>5, <1>7, Zenon

LEMMA RoundKeeps ==
  ASSUME BlockLength = 64, RoundInv, HashRound
  PROVE  RoundInv'
<1>1. /\ Last(hashed) \in Block /\ registers = reference /\ registers \in [1..5 -> Word]
      /\ words \in [0..15 -> Word] /\ schedule \in Seq(Word) /\ Len(schedule) = round
      /\ \A i \in 0..round - 1 : i + 16 >= round => words[i % 16] = schedule[i + 1]
      /\ \A j \in 0..15 : j >= round => words[j] = Words(Last(hashed))[j]
      /\ round \in 0..79 /\ round' = round + 1 /\ hashState \in [1..5 -> Word]
      /\ hashState' = hashState /\ hashed' = hashed
  <2>1. round \in 0..80 /\ round < 80 /\ round # Returned
    BY DEF RoundInv, Returned, HashRound
  <2>2. /\ round' = round + 1 /\ hashState' = hashState /\ hashed' = hashed
    BY Zenon DEF HashRound, shaVars
  <2>3. round \in 0..79
    BY <2>1
  <2> QED BY <2>1, <2>2, <2>3, Zenon DEF RoundInv
<1>2. round \in 0..79 /\ round' = round + 1
  BY <1>1, Zenon
<1>3. schedule \in Seq(Word) /\ Len(schedule) = round /\ words \in [0..15 -> Word]
  BY <1>1, Zenon
<1>4. PICK v \in Word : /\ Scheduled(words, round) = v
                        /\ Scheduled80(schedule, Last(hashed), round) = Append(schedule, v)
  BY <1>1, ScheduledAsFips180, Zenon
<1>5. /\ schedule' = Append(schedule, v) /\ words' = [words EXCEPT ![round % 16] = v]
      /\ registers' = NextRegisters(round, words, registers)
      /\ reference' = Step(round, reference, schedule')
  BY <1>4, Zenon DEF HashRound, NextWords
<1>6. /\ schedule' \in Seq(Word) /\ Len(schedule') = round' /\ schedule'[round + 1] = v
      /\ \A i \in 1..round : schedule'[i] = schedule[i]
  BY <1>5, <1>2, <1>3
<1>7. /\ words' \in [0..15 -> Word] /\ words'[round % 16] = v
      /\ \A p \in 0..15 : p # round % 16 => words'[p] = words[p]
  <2>1. round % 16 \in 0..15
    BY <1>2
  <2>2. words' = [words EXCEPT ![round % 16] = v]
    BY <1>5, Zenon
  <2> QED BY <1>3, <2>1, <2>2
<1>8. registers' = reference' /\ registers' \in [1..5 -> Word]
  <2>0. /\ round \in 0..79 /\ registers \in [1..5 -> Word] /\ v \in Word
        /\ Scheduled(words, round) = v /\ schedule'[round + 1] = v
    BY <1>1, <1>4, <1>6, Zenon
  <2>1. /\ NextRegisters(round, words, registers) = Step(round, registers, schedule')
        /\ NextRegisters(round, words, registers) \in [1..5 -> Word]
    BY <2>0, RegistersAsFips180
  <2> QED BY <1>1, <1>5, <2>1, Zenon
<1>9. \A i \in 0..round' - 1 : i + 16 >= round' => words'[i % 16] = schedule'[i + 1]
  <2> SUFFICES ASSUME NEW i \in 0..round, i + 16 >= round + 1
               PROVE  words'[i % 16] = schedule'[i + 1]
    BY <1>2
  <2>1. CASE i = round
    BY <1>6, <1>7, <2>1
  <2>2. CASE i # round
    <3>1. /\ i \in 0..round - 1 /\ i + 16 >= round /\ i % 16 # round % 16 /\ i % 16 \in 0..15
          /\ i + 1 \in 1..round
      <4>1. round \in Nat /\ i \in Nat /\ i < round /\ i + 16 > round
        BY <1>2, <2>2
      <4>2. i \in 0..round - 1 /\ i + 16 >= round /\ i % 16 \in 0..15 /\ i + 1 \in 1..round
        BY <4>1
      <4>3. i % 16 # round % 16
        BY <4>1
      <4> QED BY <4>2, <4>3
    <3>2. words[i % 16] = schedule[i + 1]
      BY <1>1, <3>1
    <3> QED BY <1>6, <1>7, <3>1, <3>2
  <2> QED BY <2>1, <2>2
<1>10. \A j \in 0..15 : j >= round' => words'[j] = Words(Last(hashed'))[j]
  <2> SUFFICES ASSUME NEW j \in 0..15, j >= round + 1
               PROVE  words'[j] = Words(Last(hashed))[j]
    <3>1. hashed' = hashed /\ Last(hashed') = Last(hashed)
      BY <1>1, Zenon
    <3> QED BY <1>2, <3>1
  <2>1. j # round % 16 /\ j >= round
    <3>1. round \in 0..14
      BY <1>2
    <3>2. round % 16 = round
      BY <3>1
    <3> QED BY <3>1, <3>2
  <2> QED BY <1>1, <1>7, <2>1
<1>11. Last(hashed)' = Last(hashed) /\ round' \in 0..80 /\ round' # Returned
  <2>1. round' \in 0..80 /\ round' # 81
    BY <1>2
  <2>2. Last(hashed)' = Last(hashed)
    BY <1>1, Zenon DEF Last
  <2> QED BY <2>1, <2>2, Zenon DEF Returned
<1>12. hashState' \in [1..5 -> Word] /\ Last(hashed') \in Block' /\ Block' = Block
  BY <1>1, <1>11 DEF Block, Last
<1> QED BY <1>6, <1>7, <1>8, <1>9, <1>10, <1>11, <1>12 DEF RoundInv

\* What hashBlock does to its caller's state when it returns.
LEMMA ReturnKeeps ==
  ASSUME RoundInv, HashReturns
  PROVE  RoundInv'
<1>1. /\ hashState \in [1..5 -> Word] /\ registers \in [1..5 -> Word]
      /\ round' = Returned /\ registers' = <<>> /\ reference' = <<>>
      /\ hashState' = [k \in 1..5 |-> Plus(hashState[k], registers[k])]
  <2>1. round = 80 /\ round # Returned
    BY DEF HashReturns, Returned
  <2> QED BY <2>1, Zenon DEF RoundInv, HashReturns, AddState
<1>2. \A k \in 1..5 : Plus(hashState[k], registers[k]) \in Word
  <2>1. \A k \in 1..5 : hashState[k] \in Word /\ registers[k] \in Word
    BY <1>1
  <2> QED BY <2>1, PlusType, Zenon
<1>3. hashState' \in [1..5 -> Word]
  BY <1>1, <1>2, Zenon
<1> QED BY <1>1, <1>3, Zenon DEF RoundInv

\* What a call of addUncounted hashes is the block that is full.
LEMMA OneBlockHashed ==
  ASSUME ShaInv, ShaNext, ShaInv', hashed' # hashed
  PROVE  Last(hashed') \in Block
<1>1. hashed \in Seq(Block) /\ hashed' \in Seq(Block)
  BY DEF ShaInv, ShaTypeOK, Block
<1>2. \E b : hashed' = Append(hashed, b)
  BY Zenon DEF ShaNext, WriteByte, PadMark, PadZero, PadLength, AddUncounted
<1>3. Len(hashed') \in 1..Len(hashed')
  BY <1>1, <1>2
<1> QED BY <1>1, <1>3 DEF Last

LEMMA CallKeeps ==
  ASSUME BlockLength = 64, ShaInv, ShaInv', RoundInv, HashByte
  PROVE  RoundInv'
<1>1. /\ round = Returned /\ ShaNext /\ hashState' = hashState
      /\ hashState \in [1..5 -> Word] /\ registers = <<>> /\ reference = <<>>
  BY Zenon DEF HashByte, RoundInv
<1>2. CASE hashed' = hashed
  <2>1. UNCHANGED <<round, registers, reference>>
    BY <1>2, Zenon DEF HashByte, blockVars
  <2> QED BY <1>1, <2>1, Zenon DEF RoundInv
<1>3. CASE hashed' # hashed
  <2>1. /\ round' = 0 /\ words' = Words(Last(hashed')) /\ registers' = hashState
        /\ schedule' = <<>> /\ reference' = hashState
    BY <1>3, Zenon DEF HashByte, CallHashBlock
  <2>2. Last(hashed') \in Block
    BY <1>1, <1>3, OneBlockHashed
  <2>3. Words(Last(hashed')) \in [0..15 -> Word]
    BY <2>2, WordsTyped
  <2>4. round' \in 0..80 /\ round' # Returned /\ schedule' \in Seq(Word) /\ Len(schedule') = round'
    BY <2>1 DEF Returned
  <2>5. 0..round' - 1 = {}
    BY <2>1
  <2>6. /\ \A i \in 0..round' - 1 : i + 16 >= round' => words'[i % 16] = schedule'[i + 1]
        /\ \A j \in 0..15 : j >= round' => words'[j] = Words(Last(hashed'))[j]
    BY <2>1, <2>5, Zenon
  <2>7. Last(hashed)' = Last(hashed') /\ Block' = Block /\ hashState' \in [1..5 -> Word]
    BY <1>1, Zenon DEF Last, Block
  <2>8. registers' = reference' /\ registers' \in [1..5 -> Word] /\ words' \in [0..15 -> Word]
    BY <1>1, <2>1, <2>3, Zenon
  <2> QED BY <2>2, <2>4, <2>6, <2>7, <2>8, Zenon DEF RoundInv
<1> QED BY <1>2, <1>3

\* Base64 and Sha1 take the steps of their own specifications.
LEMMA KeysImplement == KeySpec => Base64Spec /\ ShaSpec
<1>1. KeyInit => Base64Init /\ ShaInit
  BY DEF KeyInit
<1>2. ASSUME [KeyNext]_keyVars PROVE [Encode \/ Decode]_base64Vars /\ [ShaNext]_shaVars
  BY <1>2, Zenon DEF KeyNext, keyVars, EncodeKey, DecodeText, HashByte, HashRound, HashReturns, AnswerKey
<1> QED BY <1>1, <1>2, PTL DEF KeySpec, Base64Spec, ShaSpec

\* What Base64 and Sha1 do by themselves they do where the handshakes use them.
THEOREM KeysEncodedAndPadded ==
  KeySpec => [](/\ RoundTrip /\ EncodesAsRfc4648 /\ LengthsForetold
                /\ BlocksHoldMessage /\ PaddedAsFips180)
BY KeysImplement, DecodeInvertsEncode, EncodingIsRfc4648, LengthsAreForetold, MessageInBlocks,
   PaddingIsFips180, PTL

LEMMA RoundInvInit == KeyInit => RoundInv
<1> SUFFICES ASSUME KeyInit PROVE RoundInv
  OBVIOUS
<1>1. hashState \in [1..5 -> Word] /\ round = Returned /\ registers = <<>> /\ reference = <<>>
  BY RoundConstants, Zenon DEF KeyInit
<1> QED BY <1>1, Zenon DEF RoundInv

LEMMA RoundInvStays ==
  ASSUME BlockLength = 64, ShaInv, ShaInv', RoundInv, [KeyNext]_keyVars
  PROVE  RoundInv'
<1>1. ASSUME UNCHANGED <<blockVars, hashState, hashed>> PROVE RoundInv'
  <2>1. /\ round' = round /\ words' = words /\ registers' = registers /\ schedule' = schedule
        /\ reference' = reference /\ hashState' = hashState /\ hashed' = hashed
    BY <1>1, Zenon DEF blockVars
  <2>2. Last(hashed)' = Last(hashed) /\ Block' = Block
    BY <2>1, Zenon DEF Last, Block
  <2> QED BY <2>1, <2>2, Zenon DEF RoundInv
<1>2. CASE EncodeKey  BY <1>1, <1>2, Zenon DEF EncodeKey, shaVars
<1>3. CASE DecodeText  BY <1>1, <1>3, Zenon DEF DecodeText, shaVars
<1>4. CASE HashByte  BY <1>4, CallKeeps
<1>5. CASE HashRound  BY <1>5, RoundKeeps
<1>6. CASE HashReturns  BY <1>6, ReturnKeeps
<1>7. CASE AnswerKey  BY <1>1, <1>7, Zenon DEF AnswerKey, shaVars
<1>8. CASE UNCHANGED keyVars  BY <1>1, <1>8, Zenon DEF keyVars, shaVars
<1> QED BY <1>2, <1>3, <1>4, <1>5, <1>6, <1>7, <1>8, Zenon DEF KeyNext

\* Each round of hashBlock leaves the registers as FIPS 180-2 has them, for every
\* block of every message: sixteen words do for the schedule, and the rewritten
\* Ch and Maj are the functions they stand for.
THEOREM RoundsAreFips180 ==
  ASSUME BlockLength = 64
  PROVE  KeySpec => []RoundsAsFips180
<1>1. ShaInv /\ ShaInv' /\ RoundInv /\ [KeyNext]_keyVars => RoundInv'
  BY RoundInvStays
<1>2. RoundInv => RoundsAsFips180
  BY Zenon DEF RoundInv, RoundsAsFips180
<1> QED BY <1>1, <1>2, RoundInvInit, KeysImplement, ShaInvariant, PTL DEF KeySpec

-------------------------------------------------------------------------------
(* AcceptKey: the digest of the whole message. *)

\* FIPS 180-2's rounds 0 to n - 1 over a block: W[t] is the schedule and r[t]
\* the registers before round t.
Rounds(W, r, n, state, block) ==
  /\ W[0] = <<>> /\ r[0] = state
  /\ \A t \in 0..n - 1 : /\ W[t + 1] = Scheduled80(W[t], block, t)
                         /\ r[t + 1] = Step(t, r[t], W[t + 1])
\* The state `next' follows from a state and a block.
Compressed(state, block, next) ==
  \E W, r : Rounds(W, r, 80, state, block) /\ next = AddState(state, r[80])

\* H[b] is the state after b blocks.
States(H, n, blocks) ==
  /\ H[0] = sha1InitState
  /\ \A b \in 1..n : Compressed(H[b - 1], blocks[b], H[b])

\* The SHA-1 digest of the message, which is that of its padded blocks.
IsDigest(state) ==
  \E H, n : /\ n \in Nat /\ PaddedLength = BlockLength * n /\ H[n] = state
            /\ States(H, n, [b \in 1..n |-> [i \in 1..BlockLength |-> Padded(InBlock(b, i))]])

\* The blocks hashBlock has returned from.
Over == IF round = Returned THEN Len(hashed) ELSE Len(hashed) - 1

DigestInv ==
  /\ round # Returned =>
       /\ hashed # <<>>
       /\ \E W, r : /\ Rounds(W, r, round, hashState, Last(hashed))
                    /\ W[round] = schedule /\ r[round] = reference
  /\ \E H : States(H, Over, hashed) /\ H[Over] = hashState
  /\ b64Result # <<>> => /\ done = "finished" /\ round = Returned
                         /\ b64Result = Text(base64_encode(DigestBytes(hashState)))

LEMMA RoundsGoOn ==
  ASSUME NEW n \in Nat, NEW W, NEW r, NEW state, NEW block, Rounds(W, r, n, state, block)
  PROVE  \E V, s : /\ Rounds(V, s, n + 1, state, block)
                   /\ V[n + 1] = Scheduled80(W[n], block, n) /\ s[n + 1] = Step(n, r[n], V[n + 1])
<1> DEFINE v == Scheduled80(W[n], block, n)
           q == Step(n, r[n], v)
           V == [t \in 0..n + 1 |-> IF t = n + 1 THEN v ELSE W[t]]
           s == [t \in 0..n + 1 |-> IF t = n + 1 THEN q ELSE r[t]]
<1> HIDE DEF v, q
<1>1. /\ V[n + 1] = v /\ s[n + 1] = q
      /\ \A t \in 0..n : V[t] = W[t] /\ s[t] = r[t]
  OBVIOUS
<1> HIDE DEF V, s
<1>2. V[0] = <<>> /\ s[0] = state
  BY <1>1 DEF Rounds
<1>3. ASSUME NEW t \in 0..(n + 1) - 1
      PROVE  V[t + 1] = Scheduled80(V[t], block, t) /\ s[t + 1] = Step(t, s[t], V[t + 1])
  <2>1. CASE t = n
    <3>1. V[n] = W[n] /\ s[n] = r[n]
      BY <1>1
    <3> QED BY <1>1, <2>1, <3>1, Zenon DEF v, q
  <2>2. CASE t # n
    <3>1. t \in 0..n - 1 /\ t \in 0..n /\ t + 1 \in 0..n
      BY <2>2
    <3>2. W[t + 1] = Scheduled80(W[t], block, t) /\ r[t + 1] = Step(t, r[t], W[t + 1])
      BY <3>1, Zenon DEF Rounds
    <3>3. V[t] = W[t] /\ V[t + 1] = W[t + 1] /\ s[t] = r[t] /\ s[t + 1] = r[t + 1]
      BY <1>1, <3>1, Zenon
    <3> QED BY <3>2, <3>3, Zenon
  <2> QED BY <2>1, <2>2
<1>4. Rounds(V, s, n + 1, state, block)
  BY <1>2, <1>3, Zenon DEF Rounds
<1>5. V[n + 1] = Scheduled80(W[n], block, n) /\ s[n + 1] = Step(n, r[n], V[n + 1])
  BY <1>1, Zenon DEF v, q
<1> QED BY <1>4, <1>5, Zenon

LEMMA StatesGoOn ==
  ASSUME NEW n \in Nat, NEW H, NEW blocks, NEW next, States(H, n, blocks),
         Compressed(H[n], blocks[n + 1], next)
  PROVE  \E G : States(G, n + 1, blocks) /\ G[n + 1] = next
<1> DEFINE G == [b \in 0..n + 1 |-> IF b = n + 1 THEN next ELSE H[b]]
<1>1. G[n + 1] = next /\ \A b \in 0..n : G[b] = H[b]
  OBVIOUS
<1> HIDE DEF G
<1>2. G[0] = sha1InitState
  BY <1>1 DEF States
<1>3. ASSUME NEW b \in 1..n + 1
      PROVE  Compressed(G[b - 1], blocks[b], G[b])
  <2>1. CASE b = n + 1
    <3>1. b - 1 = n /\ n \in 0..n
      BY <2>1
    <3> QED BY <1>1, <2>1, <3>1, Zenon
  <2>2. CASE b # n + 1
    <3>1. b \in 1..n /\ b \in 0..n /\ b - 1 \in 0..n
      BY <2>2
    <3>2. Compressed(H[b - 1], blocks[b], H[b])
      BY <3>1, Zenon DEF States
    <3> QED BY <1>1, <3>1, <3>2, Zenon
  <2> QED BY <2>1, <2>2
<1> QED BY <1>1, <1>2, <1>3, Zenon DEF States

LEMMA StatesKept ==
  ASSUME NEW n \in Nat, NEW H, NEW blocks, NEW others, States(H, n, blocks),
         \A b \in 1..n : others[b] = blocks[b]
  PROVE  States(H, n, others)
  BY Zenon DEF States

LEMMA DigestInvInit == KeyInit => DigestInv
<1> SUFFICES ASSUME KeyInit PROVE DigestInv
  OBVIOUS
<1>1. /\ round = Returned /\ hashed = <<>> /\ hashState = sha1InitState /\ b64Result = <<>>
  BY DEF KeyInit, ShaInit
<1>2. Over = 0
  BY <1>1 DEF Over
<1> DEFINE H == [b \in {0} |-> sha1InitState]
<1>3. H[0] = sha1InitState /\ 1..0 = {}
  OBVIOUS
<1>4. States(H, 0, hashed) /\ H[0] = hashState
  BY <1>1, <1>3, Zenon DEF States
<1> QED BY <1>1, <1>2, <1>4, Zenon DEF DigestInv

\* What is not touched by a step that touches neither the digest nor the blocks.
LEMMA DigestUnchanged ==
  ASSUME DigestInv, UNCHANGED <<blockVars, hashState, hashed, done, b64Result>>
  PROVE  DigestInv'
<1>1. /\ round' = round /\ schedule' = schedule /\ reference' = reference
      /\ hashState' = hashState /\ hashed' = hashed /\ done' = done /\ b64Result' = b64Result
  BY Zenon DEF blockVars
<1>2. Last(hashed)' = Last(hashed) /\ Over' = Over
  BY <1>1, Zenon DEF Last, Over
<1> QED BY <1>1, <1>2, Zenon DEF DigestInv

LEMMA DigestInRound ==
  ASSUME RoundInv, DigestInv, HashRound
  PROVE  DigestInv'
<1>1. /\ round \in 0..79 /\ round' = round + 1 /\ round # Returned /\ round' # Returned
      /\ hashState' = hashState /\ hashed' = hashed /\ b64Result = <<>> /\ b64Result' = <<>>
      /\ schedule' = Scheduled80(schedule, Last(hashed), round)
      /\ reference' = Step(round, reference, schedule')
  <2>1. round \in 0..79 /\ round' = round + 1
    BY DEF RoundInv, Returned, HashRound
  <2>2. round # Returned /\ round' # Returned
    BY <2>1 DEF Returned
  <2> QED BY <2>1, <2>2, Zenon DEF HashRound, DigestInv, shaVars
<1>2. PICK W, r : /\ Rounds(W, r, round, hashState, Last(hashed))
                  /\ W[round] = schedule /\ r[round] = reference
  BY <1>1, Zenon DEF DigestInv
<1>3. round \in Nat
  BY <1>1
<1>4. PICK V, s : /\ Rounds(V, s, round + 1, hashState, Last(hashed))
                  /\ V[round + 1] = Scheduled80(W[round], Last(hashed), round)
                  /\ s[round + 1] = Step(round, r[round], V[round + 1])
  BY <1>2, <1>3, RoundsGoOn
<1>5. V[round + 1] = schedule' /\ s[round + 1] = reference'
  BY <1>1, <1>2, <1>4, Zenon
<1>6. Last(hashed)' = Last(hashed) /\ Over' = Over /\ hashed # <<>>
  BY <1>1, Zenon DEF Last, Over, DigestInv
<1>7. /\ hashed' # <<>>
      /\ Rounds(V, s, round', hashState', Last(hashed)') /\ V[round'] = schedule' /\ s[round'] = reference'
  BY <1>1, <1>4, <1>5, <1>6, Zenon
<1>8. \E H : States(H, Over', hashed') /\ H[Over'] = hashState'
  BY <1>1, <1>6, Zenon DEF DigestInv
<1> QED BY <1>1, <1>7, <1>8, Zenon DEF DigestInv

LEMMA DigestAtReturn ==
  ASSUME ShaInv, RoundInv, DigestInv, HashReturns
  PROVE  DigestInv'
<1>1. /\ round = 80 /\ round # Returned /\ round' = Returned
      /\ hashed' = hashed /\ b64Result = <<>> /\ b64Result' = <<>>
      /\ registers = reference /\ hashState' = AddState(hashState, registers)
  <2>1. round = 80 /\ round # Returned
    BY DEF HashReturns, Returned
  <2> QED BY <2>1, Zenon DEF HashReturns, RoundInv, DigestInv, shaVars
<1>2. PICK W, r : Rounds(W, r, 80, hashState, Last(hashed)) /\ r[80] = reference
  BY <1>1, Zenon DEF DigestInv
<1>3. Compressed(hashState, Last(hashed), hashState')
  BY <1>1, <1>2, Zenon DEF Compressed
<1>4. PICK H : States(H, Over, hashed) /\ H[Over] = hashState
  BY Zenon DEF DigestInv
<1>5. /\ Len(hashed) \in Nat \ {0} /\ Over = Len(hashed) - 1 /\ Over' = Len(hashed)
      /\ Over \in Nat /\ Over + 1 = Len(hashed)
  <2>1. hashed \in Seq(Block) /\ hashed # <<>>
    BY <1>1, Zenon DEF ShaInv, ShaTypeOK, DigestInv, Block
  <2>2. Len(hashed) \in Nat \ {0}
    BY <2>1
  <2>3. Over = Len(hashed) - 1 /\ Over' = Len(hashed)
    BY <1>1, Zenon DEF Over
  <2> QED BY <2>2, <2>3
<1>6. Compressed(H[Over], hashed[Over + 1], hashState')
  BY <1>3, <1>4, <1>5, Zenon DEF Last
<1>7. PICK G : States(G, Over + 1, hashed) /\ G[Over + 1] = hashState'
  <2> DEFINE n == Over
             next == hashState'
  <2>1. n \in Nat /\ States(H, n, hashed) /\ Compressed(H[n], hashed[n + 1], next)
    BY <1>4, <1>5, <1>6, Zenon
  <2> HIDE DEF n, next
  <2>2. \E G : States(G, n + 1, hashed) /\ G[n + 1] = next
    BY <2>1, StatesGoOn
  <2> QED BY <2>2, Zenon DEF n, next
<1>8. States(G, Over', hashed') /\ G[Over'] = hashState'
  BY <1>1, <1>5, <1>7, Zenon
<1> QED BY <1>1, <1>8, Zenon DEF DigestInv

LEMMA DigestAtCall ==
  ASSUME ShaInv, ShaInv', DigestInv, HashByte
  PROVE  DigestInv'
<1>1. /\ round = Returned /\ ShaNext /\ hashState' = hashState /\ b64Result' = b64Result
  BY Zenon DEF HashByte
<1>2. done # "finished"
  BY <1>1, Zenon DEF ShaNext, WriteByte, PadMark, PadZero, PadLength
<1>3. b64Result = <<>>
  BY <1>2, Zenon DEF DigestInv
<1>4. PICK H : States(H, Over, hashed) /\ H[Over] = hashState
  BY Zenon DEF DigestInv
<1>5. Over = Len(hashed)
  BY <1>1 DEF Over
<1>6. CASE hashed' = hashed
  <2>1. round' = round
    BY <1>6, Zenon DEF HashByte, blockVars
  <2>2. States(H, Over', hashed') /\ H[Over'] = hashState'
    BY <1>1, <1>4, <1>6, <2>1, Zenon DEF Over
  <2> QED BY <1>1, <1>3, <2>1, <2>2, Zenon DEF DigestInv
<1>7. CASE hashed' # hashed
  <2>1. round' = 0 /\ schedule' = <<>> /\ reference' = hashState /\ round' # Returned
    <3>1. round' = 0 /\ schedule' = <<>> /\ reference' = hashState
      BY <1>7, Zenon DEF HashByte, CallHashBlock
    <3> QED BY <3>1 DEF Returned
  <2>2. PICK block : hashed' = Append(hashed, block)
    BY <1>1, <1>7, Zenon DEF ShaNext, WriteByte, PadMark, PadZero, PadLength, AddUncounted
  <2>3. hashed \in Seq(Block) /\ hashed' \in Seq(Block)
    BY DEF ShaInv, ShaTypeOK, Block
  <2>4. /\ Len(hashed) \in Nat /\ Len(hashed') = Len(hashed) + 1 /\ hashed' # <<>>
        /\ \A b \in 1..Len(hashed) : hashed'[b] = hashed[b]
    BY <2>2, <2>3
  <2>5. Over' = Len(hashed)
    <3>1. Over' = Len(hashed') - 1
      BY <2>1, Zenon DEF Over
    <3> QED BY <2>4, <3>1
  <2>6. States(H, Over', hashed') /\ H[Over'] = hashState'
    BY <1>1, <1>4, <1>5, <2>4, <2>5, StatesKept, Zenon
  <2> DEFINE W == [t \in {0} |-> <<>>]
             r == [t \in {0} |-> hashState]
  <2>7. W[0] = <<>> /\ r[0] = hashState /\ 0..0 - 1 = {}
    OBVIOUS
  <2>8. Rounds(W, r, 0, hashState, Last(hashed)')
    BY <2>7, Zenon DEF Rounds
  <2> HIDE DEF W, r
  <2>9. Rounds(W, r, round', hashState', Last(hashed)') /\ W[round'] = schedule' /\ r[round'] = reference'
    BY <1>1, <2>1, <2>7, <2>8, Zenon
  <2> QED BY <1>1, <1>3, <2>4, <2>6, <2>9, Zenon DEF DigestInv
<1> QED BY <1>6, <1>7

LEMMA DigestInvStays ==
  ASSUME ShaInv, ShaInv', RoundInv, DigestInv, [KeyNext]_keyVars
  PROVE  DigestInv'
<1>1. CASE EncodeKey  BY <1>1, DigestUnchanged, Zenon DEF EncodeKey, shaVars
<1>2. CASE DecodeText  BY <1>2, DigestUnchanged, Zenon DEF DecodeText, shaVars
<1>3. CASE HashByte  BY <1>3, DigestAtCall
<1>4. CASE HashRound  BY <1>4, DigestInRound
<1>5. CASE HashReturns  BY <1>5, DigestAtReturn
<1>6. CASE AnswerKey
  <2>1. /\ done' = "finished" /\ round' = Returned /\ round = Returned
        /\ b64Result' = Text(base64_encode(DigestBytes(hashState)))
        /\ hashState' = hashState /\ hashed' = hashed
    BY <1>6, Zenon DEF AnswerKey, shaVars, blockVars
  <2>2. Over' = Over
    BY <2>1, Zenon DEF Over
  <2> QED BY <2>1, <2>2, Zenon DEF DigestInv
<1>7. CASE UNCHANGED keyVars  BY <1>7, DigestUnchanged, Zenon DEF keyVars, shaVars
<1> QED BY <1>1, <1>2, <1>3, <1>4, <1>5, <1>6, <1>7, Zenon DEF KeyNext

\* The answer to any key is the encoding of the SHA-1 digest that FIPS 180-2
\* defines of the message the two update() calls made of it.
AnswersWithDigest ==
  b64Result # <<>> =>
    \E state : IsDigest(state) /\ b64Result = Text(base64_encode(DigestBytes(state)))

THEOREM AnswerIsTheDigest ==
  ASSUME BlockLength = 64
  PROVE  KeySpec => []AnswersWithDigest
<1>1. ShaInv /\ ShaInv' /\ RoundInv /\ DigestInv /\ [KeyNext]_keyVars => RoundInv' /\ DigestInv'
  BY RoundInvStays, DigestInvStays
<1>2. ASSUME ShaInv, PaddedAsFips180, DigestInv PROVE AnswersWithDigest
  <2> SUFFICES ASSUME b64Result # <<>>
               PROVE  \E state : IsDigest(state) /\ b64Result = Text(base64_encode(DigestBytes(state)))
    BY Zenon DEF AnswersWithDigest
  <2>1. /\ done = "finished" /\ round = Returned
        /\ b64Result = Text(base64_encode(DigestBytes(hashState)))
    BY <1>2, Zenon DEF DigestInv
  <2>2. PICK H : States(H, Len(hashed), hashed) /\ H[Len(hashed)] = hashState
    BY <1>2, <2>1, Zenon DEF DigestInv, Over
  <2>3. hashed \in Seq(Block) /\ Len(hashed) \in Nat /\ DOMAIN hashed = 1..Len(hashed)
    <3>1. hashed \in Seq(Block)
      BY <1>2, Zenon DEF ShaInv, ShaTypeOK, Block
    <3> QED BY <3>1
  <2> DEFINE blocks == [b \in 1..Len(hashed) |-> [i \in 1..BlockLength |-> Padded(InBlock(b, i))]]
  <2>4. PaddedLength = BlockLength * Len(hashed) /\ \A b \in 1..Len(hashed) : blocks[b] = hashed[b]
    BY <1>2, <2>1, <2>3, Zenon DEF PaddedAsFips180
  <2> HIDE DEF blocks
  <2>5. States(H, Len(hashed), blocks)
    BY <2>2, <2>3, <2>4, StatesKept, Zenon
  <2>6. IsDigest(hashState)
    BY <2>2, <2>3, <2>4, <2>5, Zenon DEF IsDigest, blocks
  <2> QED BY <2>1, <2>6, Zenon
<1> QED BY <1>1, <1>2, RoundInvInit, DigestInvInit, KeysImplement, ShaInvariant, PaddingIsFips180, PTL
        DEF KeySpec
================================================================================
