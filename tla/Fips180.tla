-------------------------------- MODULE Fips180 -------------------------------
(* SHA-1 as FIPS 180-2 (6.1.2) defines it, with a message schedule of eighty  *)
(* words and the functions Ch, Parity and Maj: the reference hashBlock is     *)
(* compared with.  Only the operations on words are shared with the code's.   *)
EXTENDS Sha1Block

Complement(x) == << Half - 1 - x[1], Half - 1 - x[2] >>

Ch(x, y, z) == BitXor(BitAnd(x, y), BitAnd(Complement(x), z))
Parity(x, y, z) == BitXor(BitXor(x, y), z)
Maj(x, y, z) == BitXor(BitXor(BitAnd(x, y), BitAnd(x, z)), BitAnd(y, z))

\* K and the function of round t.
Constant(t) == CASE t < 20 -> SHA1_K0 [] t \in 20..39 -> SHA1_K20
                 [] t \in 40..59 -> SHA1_K40 [] OTHER -> SHA1_K60
Function(t, x, y, z) == CASE t < 20 -> Ch(x, y, z) [] t \in 40..59 -> Maj(x, y, z)
                          [] OTHER -> Parity(x, y, z)

\* The message schedule W_0 to W_t, at 1 to t + 1, grows by a word a round.
Scheduled80(W, block, t) ==
  Append(W, IF t < 16 THEN Words(block)[t]
            ELSE rol32(BitXor(BitXor(W[t - 2], W[t - 7]), BitXor(W[t - 13], W[t - 15])), 1))

\* The registers after round t, which uses the schedule's last word.
Step(t, r, W) ==
  << Plus(Plus(Plus(Plus(rol32(r[1], 5), Function(t, r[2], r[3], r[4])), r[5]), Constant(t)),
          W[t + 1]),
     r[1], rol32(r[2], 30), r[3], r[4] >>
===============================================================================
