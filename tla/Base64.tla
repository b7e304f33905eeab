-------------------------------- MODULE Base64 --------------------------------
(***************************************************************************)
(* Base64.cpp: base64_encode and base64_decode over sequences of bytes.  A *)
(* base-64 digit is its index in b64_alphabet, 0..63; Pad stands for '='.  *)
(* Loops over groups of three bytes or four digits become one operator per *)
(* group; the group that is not full when the input ends is filled up.     *)
(***************************************************************************)
EXTENDS Integers, Sequences

CONSTANTS
  Inputs,       \* the byte sequences that are encoded
  MaxInt,       \* the greatest int: 32767 on the Arduino's AVR
  PadsBefore    \* how many '=' may happen to lie before a text in memory

VARIABLES input, encoded, decoded, stage

base64Vars == <<input, encoded, decoded, stage>>

Pad == 64
NoDigit == 255      \* b64_lookup of a character outside the alphabet: (unsigned char) -1

\* The lengths have 16 bits: more than 49149 bytes have an encoding that is longer.
ASSUME InputsAssumption == \A s \in Inputs : s \in Seq(0..255) /\ Len(s) <= 49149
ASSUME IntAssumption == MaxInt \in Nat /\ MaxInt >= 32767 /\ PadsBefore \subseteq 0..MaxInt

-------------------------------------------------------------------------------

\* The n-th group of `size' elements of s, with what is missing set to `fill'.
Group(s, n, size, fill) ==
  [k \in 1..size |-> IF size * (n - 1) + k <= Len(s) THEN s[size * (n - 1) + k] ELSE fill]

Groups(s, size) == (Len(s) + size - 1) \div size
InGroup(s, n, size) == IF size * n <= Len(s) THEN size ELSE Len(s) - size * (n - 1)

a3_to_a4NoCarry(a3) ==                \* fault: the second byte's high bits are dropped
  << a3[1] \div 4, (a3[1] % 4) * 16, (a3[2] % 16) * 4 + (a3[3] \div 64), a3[3] % 64 >>
a3_to_a4(a3) ==
  << a3[1] \div 4,
     (a3[1] % 4) * 16 + (a3[2] \div 16),
     (a3[2] % 16) * 4 + (a3[3] \div 64),
     a3[3] % 64 >>

\* The masks leave of NoDigit what they leave of any byte.
a4_to_a3(a4) ==
  << (a4[1] * 4 + ((a4[2] \div 16) % 4)) % 256,
     ((a4[2] % 16) * 16 + ((a4[3] \div 4) % 16)) % 256,
     ((a4[3] % 4) * 64 + a4[4]) % 256 >>

\* i bytes give i + 1 digits and are padded to four characters.
EncodeGroup(s, n) ==
  LET i == InGroup(s, n, 3)
      a4 == a3_to_a4(Group(s, n, 3, 0))
  IN [k \in 1..4 |-> IF k <= i + 1 THEN a4[k] ELSE Pad]

\* The k-th character is in group Nth(k, 4), at place Place(k, 4).
Nth(k, size) == (k + size - 1) \div size
Place(k, size) == k - size * (Nth(k, size) - 1)

base64_encode(s) == [k \in 1..4 * Groups(s, 3) |-> EncodeGroup(s, Nth(k, 4))[Place(k, 4)]]

DigitsOnly(s) == s                    \* fault: '=' is read as if it were a digit
\* Decoding breaks off at the first '='.
Digits(s) ==
  LET pads == {k \in DOMAIN s : s[k] = Pad}
  IN IF pads = {} THEN s ELSE SubSeq(s, 1, (CHOOSE k \in pads : \A j \in pads : k <= j) - 1)

\* i digits give i - 1 bytes: the last group may be short of digits.
DecodedLength(s) ==
  IF s = <<>> THEN 0 ELSE 3 * (Groups(s, 4) - 1) + InGroup(s, Groups(s, 4), 4) - 1

base64_decode(s) ==
  LET digits == Digits(s)
  IN [k \in 1..DecodedLength(digits) |->
        a4_to_a3(Group(digits, Nth(k, 3), 4, NoDigit))[Place(k, 3)]]

\* int arithmetic: what does not fit wraps around, and / rounds towards zero.
AsInt(n) ==
  IF n \in -(MaxInt + 1)..MaxInt THEN n
  ELSE ((n + MaxInt + 1) % (2 * (MaxInt + 1))) - (MaxInt + 1)
Quotient(n, d) == IF n >= 0 THEN n \div d ELSE -((-n) \div d)

EncLenFloor(n) == 4 * (n \div 3)       \* fault: a group that is not full is forgotten
base64_enc_len(n) == AsInt(4 * Quotient(AsInt(AsInt(n) + 2), 3))

\* The '=' at the end are counted backwards from the last character, and further,
\* into the memory before the text, where the text is empty or nothing but '='.
PadsAtEnd(s, before) ==
  LET others == {k \in 1..Len(s) : s[k] # Pad}
  IN IF others = {} THEN Len(s) + before
     ELSE Len(s) - (CHOOSE k \in others : \A j \in others : j <= k)
base64_dec_len(s, before) ==
  AsInt(Quotient(AsInt(6 * Len(s)), 8) - PadsAtEnd(s, before))

-------------------------------------------------------------------------------

Base64Init ==
  /\ input \in Inputs /\ encoded = <<>> /\ decoded = <<>> /\ stage = "plain"

Encode ==
  /\ stage = "plain" /\ stage' = "encoded"
  /\ encoded' = base64_encode(input)
  /\ UNCHANGED <<input, decoded>>

Decode ==
  /\ stage = "encoded" /\ stage' = "decoded"
  /\ decoded' = base64_decode(encoded)
  /\ UNCHANGED <<input, encoded>>

Base64Spec == Base64Init /\ [][Encode \/ Decode]_base64Vars

-------------------------------------------------------------------------------
(* Properties. *)

\* What base64_encode wrote, base64_decode gives back, whatever is left over in
\* the last group and whatever bits its filling has.
RoundTrip == stage = "decoded" => decoded = input

\* The encoding is RFC 4648's: the bits of each group of three bytes, read as
\* one number, are the group's digits.
ReferenceGroup(s, n) ==
  LET g == Group(s, n, 3, 0)
      bits == 65536 * g[1] + 256 * g[2] + g[3]
      digits == << bits \div 262144, (bits \div 4096) % 64, (bits \div 64) % 64, bits % 64 >>
  IN [k \in 1..4 |-> IF k = 1 \/ 3 * (n - 1) + k - 1 <= Len(s) THEN digits[k] ELSE Pad]

EncodesAsRfc4648 ==
  stage # "plain" =>
    /\ Len(encoded) = 4 * Groups(input, 3)
    /\ \A n \in 1..Groups(input, 3) : SubSeq(encoded, 4 * n - 3, 4 * n) = ReferenceGroup(input, n)

\* base64_enc_len foretells the length of what base64_encode returns, if an int can
\* hold it.  base64_dec_len foretells that of what base64_decode returns exactly when
\* six times the text's length fits an int and, for the empty text, no '=' happens
\* to lie before it.
LengthsForetold ==
  stage = "decoded" =>
    /\ Len(encoded) <= MaxInt => Len(encoded) = base64_enc_len(Len(input))
    /\ \A before \in PadsBefore :
         Len(decoded) = base64_dec_len(encoded, before)
           <=> 6 * Len(encoded) <= MaxInt /\ (encoded # <<>> \/ before = 0)
===============================================================================
