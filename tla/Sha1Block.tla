------------------------------- MODULE Sha1Block ------------------------------
(***************************************************************************)
(* Sha1::hashBlock (sha1.cpp): the eighty rounds over one block, with the  *)
(* message schedule kept in the sixteen words of the block itself.  TLC's  *)
(* integers do not hold a uint32_t: a word is a pair of 16-bit halves.     *)
(***************************************************************************)
EXTENDS Integers, Sequences

Half == 65536

\* Bit n of a half, and the half with given bits.
Bit(h, n) == (h \div 2^n) % 2
FromBits(b) ==
  b[0] + 2 * (b[1] + 2 * (b[2] + 2 * (b[3] + 2 * (b[4] + 2 * (b[5] + 2 * (b[6] + 2 * (b[7]
    + 2 * (b[8] + 2 * (b[9] + 2 * (b[10] + 2 * (b[11] + 2 * (b[12] + 2 * (b[13] + 2 * (b[14]
    + 2 * b[15]))))))))))))))

XorHalf(g, h) == FromBits([n \in 0..15 |-> (Bit(g, n) + Bit(h, n)) % 2])
AndHalf(g, h) == FromBits([n \in 0..15 |-> Bit(g, n) * Bit(h, n)])
OrHalf(g, h) == FromBits([n \in 0..15 |-> 1 - (1 - Bit(g, n)) * (1 - Bit(h, n))])

BitXor(x, y) == << XorHalf(x[1], y[1]), XorHalf(x[2], y[2]) >>
BitAnd(x, y) == << AndHalf(x[1], y[1]), AndHalf(x[2], y[2]) >>
BitOr(x, y) == << OrHalf(x[1], y[1]), OrHalf(x[2], y[2]) >>

Plus(x, y) == << (x[1] + y[1] + (x[2] + y[2]) \div Half) % Half, (x[2] + y[2]) % Half >>

\* Rotations by less than a half, and by a half.
RolLow(x, n) == << (x[1] * 2^n + x[2] \div 2^(16 - n)) % Half,
                   (x[2] * 2^n + x[1] \div 2^(16 - n)) % Half >>
rol32(x, n) == IF n < 16 THEN RolLow(x, n) ELSE RolLow(<< x[2], x[1] >>, n - 16)

\* The words of a block of 64 bytes: addUncounted puts every byte at the place
\* in its little-endian word that makes the words big-endian ones.
Words(block) ==
  [i \in 0..15 |-> << 256 * block[4 * i + 1] + block[4 * i + 2],
                      256 * block[4 * i + 3] + block[4 * i + 4] >>]

SHA1_K0 == << 23170, 31129 >>       \* 0x5a827999
SHA1_K20 == << 28377, 60321 >>      \* 0x6ed9eba1
SHA1_K40 == << 36635, 48348 >>      \* 0x8f1bbcdc
SHA1_K60 == << 51810, 49622 >>      \* 0xca62c1d6

sha1InitState ==                    \* H0 to H4, as the words they are read as
  << << 26437, 8961 >>, << 61389, 43913 >>, << 39098, 56574 >>,
     << 4146, 21622 >>, << 50130, 57840 >> >>

ScheduledUnrotated(w, i) ==         \* fault: SHA-0's schedule
  IF i < 16 THEN w[i]
  ELSE BitXor(BitXor(w[(i + 13) % 16], w[(i + 8) % 16]), BitXor(w[(i + 2) % 16], w[i % 16]))
\* The word a round works on: from the seventeenth on it replaces the one
\* sixteen rounds back, of which nothing is needed any more.
Scheduled(w, i) ==
  IF i < 16 THEN w[i]
  ELSE rol32(BitXor(BitXor(w[(i + 13) % 16], w[(i + 8) % 16]), BitXor(w[(i + 2) % 16], w[i % 16])), 1)

Mixed(i, b, c, d) ==
  IF i < 20 THEN Plus(BitXor(d, BitAnd(b, BitXor(c, d))), SHA1_K0)
  ELSE IF i < 40 THEN Plus(BitXor(BitXor(b, c), d), SHA1_K20)
  ELSE IF i < 60 THEN Plus(BitOr(BitAnd(b, c), BitAnd(d, BitOr(b, c))), SHA1_K40)
  ELSE Plus(BitXor(BitXor(b, c), d), SHA1_K60)

\* Round i of the loop: the block's words w after it, and the registers a to e.
NextWords(i, w) == [w EXCEPT ![i % 16] = Scheduled(w, i)]
NextRegisters(i, w, s) ==
  << Plus(Plus(Mixed(i, s[2], s[3], s[4]), rol32(s[1], 5)), Plus(s[5], Scheduled(w, i))),
     s[1], rol32(s[2], 30), s[3], s[4] >>

\* What the block adds to the state in the end.
AddState(state, s) == [k \in 1..5 |-> Plus(state[k], s[k])]

\* The five words as finish() returns them: twenty bytes, the highest first.
DigestBytes(state) ==
  [k \in 1..20 |->
     LET half == state[(k + 3) \div 4][IF (k - 1) % 4 < 2 THEN 1 ELSE 2]
     IN IF k % 2 = 1 THEN half \div 256 ELSE half % 256]
===============================================================================
